---- MODULE Spec2Model ----
(***************************************************************************)
(* LinkedIn content automation: the generate fan-out (five LLM provider    *)
(* calls joined by Promise.allSettled, then one draft creation), the       *)
(* publish pipeline (kill switch, validation, optional image upload, post  *)
(* submission or dry run, draft update), the Draft Store they share, and   *)
(* the dashboard's client-side selection and publish logic, and the Canva  *)
(* integration: the OAuth authorization start and callback, the status     *)
(* check with its token refresh, the designs listing and the export.       *)
(*                                                                         *)
(* JavaScript strings whose characters the code inspects (startsWith,      *)
(* template literals, concatenation) are sequences of one-character        *)
(* strings.  Identifiers the code only compares (provider keys, env        *)
(* values, URLs) are TLA+ strings.                                         *)
(***************************************************************************)
EXTENDS Integers, Sequences, FiniteSets, TLC

VARIABLES
    hits,       \* rate-limit.ts: Map<ip, number[]> of admitted timestamps
    now,        \* Date.now()
    drafts,     \* Draft table: sequence of records, a draft's id is its index
    gen,        \* generate handler: position and parsed input of the request
    calls,      \* generate handler: the five provider promises
    genResp,    \* generate handler: the response returned to the client
    env,        \* process.env as read by the publish handlers
    pub,        \* publish handler: position, parsed body and locals
    pubResp,    \* publish handler: the response returned to the client
    net,        \* publish handler: outbound HTTP calls of the request, in order
    posts,      \* posts that exist on the social network
    ui,         \* dashboard: React state of DashboardPage
    inflight,   \* dashboard: fetches awaiting their response
    sent,       \* dashboard: publish request bodies handed to fetch
    canvaEnv,   \* process.env as read by the Canva authorization start
    jar,        \* the operator's browser: the two transient OAuth cookies
    tokens,     \* CanvaToken table: set of rows
    auth,       \* authorization start: states issued and the last response
    cb,         \* callback handler: position, request and response
    st,         \* status handler: position and response
    lastConnected, \* query of the last browser callback that connected, forgotten
                \* at the next authorization start
    dsg,        \* designs handler: position and response
    exp,        \* export handler: position, loop counter and response
    rl,         \* rateLimit called on its own: its last result and, per key,
                \* the calls made, the time of the first and the latest admits
    md,         \* stripMarkdown called on its own: its argument and its result
    arrivals,   \* generate handler, observed by SpecOrder only: the provider
                \* keys of the current request in the order their calls settled
    gate        \* middleware and login: the browser's auth cookie and the
                \* last request with the answer it got

vars == <<hits, now, drafts, gen, calls, genResp, env, pub, pubResp, net,
          posts, ui, inflight, sent, canvaEnv, jar, tokens, auth, cb, st,
          lastConnected, dsg, exp, rl, md, arrivals, gate>>

genVars  == <<hits, now, gen, calls, genResp>>
pubVars  == <<env, pub, pubResp, net, posts>>
dashVars == <<ui, inflight, sent>>
oauthVars == <<canvaEnv, jar, auth, cb, st, lastConnected>>
dataVars == <<dsg, exp>>
canvaVars == <<oauthVars, tokens, dataVars>>

----------------------------------------------------------------------------
(* Bounds of the model *)

MaxGenerate == 1     \* generate requests that pass the limiter and validation
MaxPublish  == 2     \* publish requests handled
MaxDashGen  == 2     \* generations started from the dashboard
MaxDashPub  == 1     \* publish requests sent from the dashboard
MaxAuth     == 2     \* authorization starts that issue a state
MaxCallback == 2     \* OAuth callbacks handled
MaxStatus   == 2     \* status checks handled
MaxTicks    == 2     \* seconds that pass
MaxDesigns  == 2     \* designs listings handled
MaxExport   == 2     \* export requests handled
MaxRateCalls == 13   \* calls of rateLimit made on its own
MaxWaits    == 3     \* half windows that pass between those calls
MaxTextLen  == 5     \* characters of a text handed to stripMarkdown on its own

----------------------------------------------------------------------------
(* Strings *)

Null     == "null"            \* null in a column or variable holding an identifier
NullText == <<"<null>">>      \* null in a column holding text
Absent   == <<"<undefined>">> \* a field missing from a vendor response

StartsWith(s, c) == Len(s) > 0 /\ s[1] = c

NoResponse == <<"[","N","o"," ","r","e","s","p","o","n","s","e","]">>
Unknown    == <<"u","n","k","n","o","w","n">>
ErrorInfix == <<" ","e","r","r","o","r",":"," ">>

Providers == {"openai", "gemini", "claude", "geminiDirect", "groq"}

\* The order in which POST starts the five calls.
LaunchOrder == <<"openai", "gemini", "claude", "geminiDirect", "groq">>

ProviderLabel(p) ==
    CASE p = "openai"       -> <<"G","P","T","-","O","S","S">>
      [] p = "gemini"       -> <<"G","e","m","m","a">>
      [] p = "claude"       -> <<"G","L","M">>
      [] p = "geminiDirect" -> <<"G","e","m","i","n","i">>
      [] p = "groq"         -> <<"G","r","o","q">>

----------------------------------------------------------------------------
(* Rate limiter *)

windowMs    == 60000
maxRequests == 10

\* A fixed bucket: the timestamps of the current minute are kept.
RateLimitKeptBucket(ip) ==
    LET old == IF ip \in DOMAIN hits THEN hits[ip] ELSE <<>>
        InBucket(t) == now \div windowMs = t \div windowMs
    IN  SelectSeq(old, InBucket)

\* rateLimit(ip): the pruned timestamps, the verdict and the new map.
RateLimitKept(ip) ==
    LET old == IF ip \in DOMAIN hits THEN hits[ip] ELSE <<>>
        InWindow(t) == now - t < windowMs
    IN  SelectSeq(old, InWindow)

RateLimitAllowed(ip) == Len(RateLimitKept(ip)) < maxRequests

\* Mutant: the timestamp of a denied call is recorded too.
RateLimitHitsAlwaysPush(ip) ==
    LET new == Append(RateLimitKept(ip), now)
    IN  [k \in DOMAIN hits \cup {ip} |-> IF k = ip THEN new ELSE hits[k]]

RateLimitHits(ip) ==
    LET kept == RateLimitKept(ip)
        new  == IF Len(kept) >= maxRequests THEN kept ELSE Append(kept, now)
    IN  [k \in DOMAIN hits \cup {ip} |-> IF k = ip THEN new ELSE hits[k]]

\* The quota left before the new timestamp is pushed.
RateLimitRemainingBeforePush(ip) ==
    IF RateLimitAllowed(ip) THEN maxRequests - Len(RateLimitKept(ip)) ELSE 0

RateLimitRemaining(ip) ==
    IF RateLimitAllowed(ip) THEN maxRequests - (Len(RateLimitKept(ip)) + 1) ELSE 0

\* The client keys of the calls.
RateKeys == {"a", "b"}

\* The last elements of a sequence, at most n of them.
LastOf(seq, n) ==
    IF Len(seq) <= n THEN seq ELSE SubSeq(seq, Len(seq) - n + 1, Len(seq))

\* result: what the last call returned; key: its key; calls[k]: the calls made
\* for k; first[k]: the time of the first of them; recent[k]: the times of the
\* latest allowed calls for k, at most maxRequests + 1 of them.
LimiterIdle ==
    [result |-> [allowed |-> TRUE, remaining |-> maxRequests], key |-> Null,
     calls |-> [k \in RateKeys |-> 0], first |-> [k \in RateKeys |-> 0],
     recent |-> [k \in RateKeys |-> <<>>]]

\* One call of rateLimit(ip).
Admit(ip) ==
    /\ rl.calls["a"] + rl.calls["b"] < MaxRateCalls
    /\ hits' = RateLimitHits(ip)
    /\ rl' = [result |-> [allowed |-> RateLimitAllowed(ip),
                          remaining |-> RateLimitRemaining(ip)],
              key |-> ip,
              calls |-> [rl.calls EXCEPT ![ip] = @ + 1],
              first |-> IF rl.calls[ip] = 0 THEN [rl.first EXCEPT ![ip] = now]
                        ELSE rl.first,
              recent |-> IF RateLimitAllowed(ip)
                         THEN [rl.recent EXCEPT
                                 ![ip] = LastOf(Append(@, now), maxRequests + 1)]
                         ELSE rl.recent]
    /\ UNCHANGED now

\* Half a window passes.
Wait ==
    /\ now < MaxWaits * (windowMs \div 2)
    /\ now' = now + windowMs \div 2
    /\ UNCHANGED <<hits, rl>>

----------------------------------------------------------------------------
(* Generate: POST /api/generate *)

NoCall == [status |-> "none", content |-> Absent, vendorMsg |-> Absent,
           message |-> Absent]
PendingCall == [NoCall EXCEPT !.status = "pending"]

Fulfilled(content) == [NoCall EXCEPT !.status = "fulfilled", !.content = content]
Rejected(vendorMsg, message) ==
    [NoCall EXCEPT !.status = "rejected", !.vendorMsg = vendorMsg,
                   !.message = message]

\* What a provider call can settle to: text, a 2xx body without the expected
\* field, a vendor error body, a transport error.
GenOutcomes ==
    { Fulfilled(<<"h","i">>), Fulfilled(Absent), Rejected(Absent, <<"t">>) }

\* Mutant: the first candidate's text is returned as it is found.
ParseResponseNoDefault(data) == data.content

\* parseOpenAIResponse / parseGeminiResponse: first candidate's text ?? "[No response]"
ParseResponse(data) == IF data.content # Absent THEN data.content ELSE NoResponse

\* Mutant: the transport's message is preferred to the vendor's.
FailureReasonMessageFirst(r) ==
    IF r.message # Absent THEN r.message
    ELSE IF r.vendorMsg # Absent THEN r.vendorMsg
    ELSE Unknown

\* reason?.response?.data?.error?.message ?? reason?.message ?? "unknown"
FailureReason(r) ==
    IF r.vendorMsg # Absent THEN r.vendorMsg
    ELSE IF r.message # Absent THEN r.message
    ELSE Unknown

\* Mutant: a rejected call yields no value for its slot.
SlotTextDropFailed(p, r) ==
    IF r.status = "fulfilled" THEN ParseResponse(r) ELSE Absent

\* One slot of the result: the ternary on the settled promise's status.
SlotText(p, r) ==
    IF r.status = "fulfilled"
    THEN ParseResponse(r)
    ELSE <<"[">> \o ProviderLabel(p) \o ErrorInfix \o FailureReason(r) \o <<"]">>

\* The place of a provider's call in the list handed to Promise.allSettled.
Position(p) == CHOOSE i \in 1..Len(LaunchOrder) : LaunchOrder[i] = p

\* Mutant: the results come in the order in which the calls settled.
ResultByArrival(p) == calls[arrivals[Position(p)]]

\* const [oResult, gResult, cResult, gemDResult, groqResult] = await
\* Promise.allSettled([...]): the result array follows the order of the list,
\* so each name is bound to the result of the call at its own place.
ResultOf(p) == calls[LaunchOrder[Position(p)]]

\* Mutant: the join of Promise.all, which also resumes on the first rejection.
AllOrFirstRejection(cs) ==
    \/ \A p \in Providers : cs[p].status = "fulfilled"
    \/ \E p \in Providers : cs[p].status = "rejected"

\* Mutant: a join that resumes only when every call has answered.
AllFulfilledOnly(cs) == \A p \in Providers : cs[p].status = "fulfilled"

\* await Promise.allSettled([...]) resumes when no promise of the list is pending.
AllSettled(cs) == \A p \in Providers : cs[p].status \in {"fulfilled", "rejected"}

Prompts == { <<"p">> }

\* Request bodies: not JSON, JSON without a prompt, an empty prompt, a prompt
\* within 1..2000 characters.
GenBodies ==
    { [json |-> FALSE, prompt |-> Absent], [json |-> TRUE, prompt |-> Absent],
      [json |-> TRUE, prompt |-> <<>>] }
    \cup { [json |-> TRUE, prompt |-> q] : q \in Prompts }

\* req.json() succeeded and bodySchema.safeParse(body).success
GenBodyValid(b) ==
    /\ b.json
    /\ b.prompt # Absent
    /\ Len(b.prompt) >= 1
    /\ Len(b.prompt) <= 2000

\* Mutant: the create call of the three-provider handler.
NewDraftThreeSlots(prompt, texts) ==
    [prompt |-> prompt,
     openaiText |-> texts["openai"], geminiText |-> texts["gemini"],
     claudeText |-> texts["claude"], geminiDirectText |-> NullText,
     groqText |-> NullText,
     selectedModel |-> Null, finalText |-> NullText, imageUrl |-> Null,
     linkedinPostId |-> NullText, published |-> FALSE]

\* prisma.draft.create({data: {prompt, openaiText, ...}}): the other columns
\* take their defaults.
NewDraft(prompt, texts) ==
    [prompt |-> prompt,
     openaiText |-> texts["openai"], geminiText |-> texts["gemini"],
     claudeText |-> texts["claude"], geminiDirectText |-> texts["geminiDirect"],
     groqText |-> texts["groq"],
     selectedModel |-> Null, finalText |-> NullText, imageUrl |-> Null,
     linkedinPostId |-> NullText, published |-> FALSE]

\* passed: the request got past the limiter and validation; creates: calls of
\* prisma.draft.create made for it; admitted: requests that passed, so far.
\* The id prisma gives the n-th draft created (an opaque unique string).
DraftId(n) == <<"d", n>>

\* The row a draft id names, 0 when no row has that id.
FindDraft(id) ==
    IF \E i \in 1..Len(drafts) : DraftId(i) = id
    THEN CHOOSE i \in 1..Len(drafts) : DraftId(i) = id
    ELSE 0

\* The column of a draft that holds a provider's output.
DraftSlot(d, p) ==
    CASE p = "openai"       -> d.openaiText
      [] p = "gemini"       -> d.geminiText
      [] p = "claude"       -> d.claudeText
      [] p = "geminiDirect" -> d.geminiDirectText
      [] p = "groq"         -> d.groqText

GenIdle == [pc |-> "idle", ip |-> "a", passed |-> FALSE, prompt |-> <<>>,
            next |-> 1, draftId |-> 0, creates |-> 0, admitted |-> 0]

NoResp == [status |-> 0]

\* Lines 76-113: limiter, body parsing and validation.
GenStart(ip, body) ==
    /\ gen.pc = "idle"
    /\ hits' = RateLimitHits(ip)
    /\ calls' = [p \in Providers |-> NoCall]
    /\ IF ~RateLimitAllowed(ip)
       THEN /\ genResp' = [status |-> 429]
            /\ gen' = [GenIdle EXCEPT !.admitted = gen.admitted, !.ip = ip]
       ELSE IF ~GenBodyValid(body)
       THEN /\ genResp' = [status |-> 400]
            /\ gen' = [GenIdle EXCEPT !.admitted = gen.admitted, !.ip = ip]
       ELSE /\ gen.admitted < MaxGenerate
            /\ genResp' = NoResp
            /\ gen' = [GenIdle EXCEPT !.pc = "launch", !.ip = ip, !.passed = TRUE,
                                      !.prompt = body.prompt,
                                      !.admitted = gen.admitted + 1]
    /\ UNCHANGED <<now, drafts>>

\* Lines 118-147: the next call of the list is started (axios.post returns its promise).
GenLaunch ==
    /\ gen.pc = "launch"
    /\ calls' = [calls EXCEPT ![LaunchOrder[gen.next]] = PendingCall]
    /\ gen' = IF gen.next = Len(LaunchOrder)
              THEN [gen EXCEPT !.pc = "await"]
              ELSE [gen EXCEPT !.next = gen.next + 1]
    /\ UNCHANGED <<hits, now, drafts, genResp>>

\* A provider answers, fails or times out (60 s ceiling of its own call).
GenSettle(p, outcome) ==
    /\ calls[p].status = "pending"
    /\ calls' = [calls EXCEPT ![p] = outcome]
    /\ UNCHANGED <<hits, now, drafts, gen, genResp>>

\* Lines 150-187: the join resumes, the five texts are computed, the draft is created.
GenJoin ==
    /\ gen.pc = "await"
    /\ AllSettled(calls)
    /\ LET texts == [p \in Providers |-> SlotText(p, ResultOf(p))]
       IN  /\ drafts' = Append(drafts, NewDraft(gen.prompt, texts))
           /\ gen' = [gen EXCEPT !.pc = "created", !.draftId = Len(drafts) + 1,
                                 !.creates = gen.creates + 1]
    /\ UNCHANGED <<hits, now, calls, genResp>>

\* Lines 189-196: the response is built from the same five texts.
GenRespond ==
    /\ gen.pc = "created"
    /\ genResp' = [status |-> 200, id |-> DraftId(gen.draftId),
                   openai |-> SlotText("openai", ResultOf("openai")),
                   gemini |-> SlotText("gemini", ResultOf("gemini")),
                   claude |-> SlotText("claude", ResultOf("claude")),
                   geminiDirect |-> SlotText("geminiDirect", ResultOf("geminiDirect")),
                   groq |-> SlotText("groq", ResultOf("groq"))]
    /\ gen' = [gen EXCEPT !.pc = "idle"]
    /\ UNCHANGED <<hits, now, drafts, calls>>

----------------------------------------------------------------------------
(* Publish: POST /api/publish *)

\* Characters outside ASCII are named: the glyphs U+25C6 and U+2022.
Diamond == "U+25C6"
Bullet  == "U+2022"

Whitespace == {" ", "\n", "\t"}
IsLineTerminator(c) == c = "\n"

Min(S) == CHOOSE x \in S : \A y \in S : x <= y

StarsAt(s, i, m) == i + m - 1 <= Len(s) /\ \A k \in i..(i + m - 1) : s[k] = "*"

\* s.replace(/\*{m}(.+?)\*{m}/g, "$1") from position i: the scan goes left to
\* right; at a marker the group is the shortest run of one or more characters
\* other than line terminators that is followed by the closing marker.
RECURSIVE StripPairs(_, _, _)
StripPairs(s, m, i) ==
    IF i > Len(s) THEN <<>>
    ELSE LET ends == { j \in (i + m + 1)..Len(s) :
                         /\ StarsAt(s, j, m)
                         /\ \A k \in (i + m)..(j - 1) : ~IsLineTerminator(s[k]) }
         IN  IF StarsAt(s, i, m) /\ ends # {}
             THEN SubSeq(s, i + m, Min(ends) - 1) \o StripPairs(s, m, Min(ends) + m)
             ELSE <<s[i]>> \o StripPairs(s, m, i + 1)

\* The end of the longest run of characters of the class C that starts at i
\* (i - 1 when s[i] is not in C).
RECURSIVE RunEnd(_, _, _)
RunEnd(s, i, C) ==
    IF i <= Len(s) /\ s[i] \in C THEN RunEnd(s, i + 1, C) ELSE i - 1

\* s.replace(/^#{1,6}\s+/gm, "") from position i.
RECURSIVE StripHeadings(_, _)
StripHeadings(s, i) ==
    IF i > Len(s) THEN <<>>
    ELSE LET lineStart == i = 1 \/ IsLineTerminator(s[i - 1])
             hashEnd   == RunEnd(s, i, {"#"})
             spaceEnd  == RunEnd(s, hashEnd + 1, Whitespace)
         IN  IF /\ lineStart
                /\ hashEnd - i + 1 \in 1..6
                /\ spaceEnd > hashEnd
             THEN StripHeadings(s, spaceEnd + 1)
             ELSE <<s[i]>> \o StripHeadings(s, i + 1)

\* s.replace(/U+25C6/g, "U+2022")
ReplaceDiamonds(s) == [i \in 1..Len(s) |-> IF s[i] = Diamond THEN Bullet ELSE s[i]]

\* The chain with the two star replacements exchanged.
stripMarkdownItalicFirst(text) ==
    ReplaceDiamonds(StripHeadings(StripPairs(StripPairs(text, 1, 1), 2, 1), 1))

stripMarkdown(text) ==
    ReplaceDiamonds(StripHeadings(StripPairs(StripPairs(text, 2, 1), 1, 1), 1))

\* stripMarkdown called on its own: the texts it is handed.
StripAlphabet == {"*", "#", " ", "\n", "a", Diamond}

RECURSIVE TextsOfLen(_)
TextsOfLen(n) ==
    IF n = 0 THEN {<<>>}
    ELSE {Append(t, c) : t \in TextsOfLen(n - 1), c \in StripAlphabet}

MarkedText ==
    <<"*","*","b","o","l","d","*","*"," ","a","n","d"," ","*","i","t","a","l",
      "i","c","*"," ","w","i","t","h"," ",Diamond," ","i","t","e","m">>

StripTexts == {MarkedText} \cup UNION {TextsOfLen(n) : n \in 0..MaxTextLen}

StripIdle == [text |-> <<>>, out |-> <<>>, done |-> FALSE]

\* One call of stripMarkdown(text).
StripCall ==
    /\ ~md.done
    /\ md' = [md EXCEPT !.out = stripMarkdown(md.text), !.done = TRUE]

\* Decimal digits of a natural number: String(n).
RECURSIVE Digits(_)
Digits(n) ==
    LET d == <<"0","1","2","3","4","5","6","7","8","9">>[(n % 10) + 1]
    IN  IF n < 10 THEN <<d>> ELSE Digits(n \div 10) \o <<d>>

DryRunPrefix == <<"d","r","y","-","r","u","n","-">>

HasPrefix(s, pre) == Len(s) >= Len(pre) /\ SubSeq(s, 1, Len(pre)) = pre

\* A value of process.env that JavaScript treats as true.
Truthy(v) == v \notin {"unset", ""}

AuthorPlaceholder == "urn:li:person:XXXX"

\* Mutant: the placeholder author counts as configured.
isLinkedInConfiguredNoPlaceholder ==
    Truthy(env.LINKEDIN_ACCESS_TOKEN) /\ Truthy(env.LINKEDIN_AUTHOR_URN)

isLinkedInConfigured ==
    /\ Truthy(env.LINKEDIN_ACCESS_TOKEN)
    /\ Truthy(env.LINKEDIN_AUTHOR_URN)
    /\ env.LINKEDIN_AUTHOR_URN # AuthorPlaceholder

\* Mutant: only the literal "false" disables publishing.
PublishEnabledUnlessFalse == env.PUBLISH_ENABLED # "false"

\* The kill switch lets a request through: process.env.PUBLISH_ENABLED === "true".
PublishEnabled == env.PUBLISH_ENABLED = "true"

\* The two publish handlers of the repository: the five-provider handler with
\* image upload ("current") and app/api/publish/route.ts ("legacy").
Routes == {"current", "legacy"}

RouteModels(route) ==
    IF route = "current" THEN Providers ELSE {"openai", "gemini", "claude"}

NoImage == "undefined"
IsUrl(u) == u \in {"https://img/a.png"}

\* req.json() succeeded and bodySchema.safeParse(body).success; a key the
\* schema does not name is dropped.
PubBodyValid(route, b) ==
    /\ b.json
    /\ Len(b.draftId) >= 1
    /\ b.selectedModel \in RouteModels(route)
    /\ Len(b.text) >= 1
    /\ Len(b.text) <= 3000
    /\ route = "current" => (b.imageUrl = NoImage \/ IsUrl(b.imageUrl))

PubTexts == { <<"h","i">>, <<"[","E","]">>, <<>> }

\* A body that is not JSON: req.json() throws.
NoBody == [json |-> FALSE, draftId |-> <<>>, selectedModel |-> "openai",
           text |-> <<>>, imageUrl |-> NoImage]

\* Request bodies.
PubBodies ==
    [json : {TRUE},
     draftId : {DraftId(1), DraftId(99), <<>>},
     selectedModel : {"openai", "groq", "gpt5"},
     text : PubTexts,
     imageUrl : {NoImage, "https://img/a.png", "not a url"}]
    \cup {NoBody}

\* valid: the body passed validation; updates: calls of prisma.draft.update made
\* for the request; before: the Draft table when the request arrived; reqValid:
\* the body as sent satisfies the schema; count: requests handled so far.
PubIdle == [pc |-> "idle", route |-> "current", draftId |-> <<>>,
            selectedModel |-> Null, text |-> <<>>, imageUrl |-> NoImage,
            valid |-> FALSE, cleanText |-> <<>>, imageUrn |-> Null,
            linkedinPostId |-> <<>>, dryRun |-> FALSE, updates |-> 0,
            before |-> <<>>, reqValid |-> FALSE, count |-> 0]

ErrResp(status, error) == [status |-> status, error |-> error]

\* Lines 87-111 (current), 22-45 (legacy): kill switch, body parsing, validation,
\* text clean-up, the dry-run id and the choice between live and dry run.
PubStart(route, body) ==
    /\ pub.pc \in {"idle", "done"}
    /\ pub.count < MaxPublish
    /\ net' = <<>>
    /\ LET base == [PubIdle EXCEPT !.route = route, !.count = pub.count + 1,
                                   !.before = drafts,
                                   !.reqValid = PubBodyValid(route, body)]
           done(resp) == /\ pub' = [base EXCEPT !.pc = "done"]
                         /\ pubResp' = resp
       IN  IF ~PublishEnabled
           THEN done(ErrResp(403, "Publishing is currently disabled."))
           ELSE IF ~body.json
           THEN done(ErrResp(500, "Internal server error"))
           ELSE IF ~PubBodyValid(route, body)
           THEN done(ErrResp(400, "Invalid payload"))
           ELSE LET parsed ==
                      [base EXCEPT
                         !.valid = TRUE,
                         !.draftId = body.draftId,
                         !.selectedModel = body.selectedModel,
                         !.text = body.text,
                         !.imageUrl = IF route = "current" THEN body.imageUrl
                                      ELSE NoImage,
                         !.cleanText = IF route = "current"
                                       THEN stripMarkdown(body.text)
                                       ELSE body.text,
                         !.linkedinPostId = DryRunPrefix \o Digits(now)]
                IN  /\ pubResp' = NoResp
                    /\ pub' = IF isLinkedInConfigured
                              THEN [parsed EXCEPT
                                      !.pc = IF parsed.imageUrl # NoImage
                                             THEN "download" ELSE "post"]
                              ELSE [parsed EXCEPT !.dryRun = TRUE, !.pc = "update"]
    /\ UNCHANGED <<drafts, posts, env>>

UploadFailed ==
    ErrResp(500, "Failed to upload image to LinkedIn. Post not published.")

\* uploadImageToLinkedIn step 1: GET of the image bytes.
PubDownload(ok) ==
    /\ pub.pc = "download"
    /\ net' = Append(net, [call |-> "download", ok |-> ok])
    /\ IF ok THEN /\ pub' = [pub EXCEPT !.pc = "initializeUpload"]
                  /\ UNCHANGED pubResp
             ELSE /\ pub' = [pub EXCEPT !.pc = "done"]
                  /\ pubResp' = UploadFailed
    /\ UNCHANGED <<drafts, posts, env>>

ImageUrn == "urn:li:image:1"

\* Step 2: initializeUpload; a 2xx answer without uploadUrl or image throws too.
PubInitializeUpload(outcome) ==
    /\ pub.pc = "initializeUpload"
    /\ net' = Append(net, [call |-> "initializeUpload", ok |-> outcome = "ok"])
    /\ IF outcome = "ok"
       THEN /\ pub' = [pub EXCEPT !.pc = "put"]
            /\ UNCHANGED pubResp
       ELSE /\ pub' = [pub EXCEPT !.pc = "done"]
            /\ pubResp' = UploadFailed
    /\ UNCHANGED <<drafts, posts, env>>

\* Mutant: a failed PUT is not noticed and the handler goes on to post.
PubPutUnchecked(ok) ==
    /\ pub.pc = "put"
    /\ net' = Append(net, [call |-> "put", ok |-> ok])
    /\ pub' = [pub EXCEPT !.pc = "post", !.imageUrn = ImageUrn]
    /\ UNCHANGED <<pubResp, drafts, posts, env>>

\* Step 3: PUT of the bytes to the upload URL; the URN is returned on success.
PubPut(ok) ==
    /\ pub.pc = "put"
    /\ net' = Append(net, [call |-> "put", ok |-> ok])
    /\ IF ok THEN /\ pub' = [pub EXCEPT !.pc = "post", !.imageUrn = ImageUrn]
                  /\ UNCHANGED pubResp
             ELSE /\ pub' = [pub EXCEPT !.pc = "done"]
                  /\ pubResp' = UploadFailed
    /\ UNCHANGED <<drafts, posts, env>>

RestliId == <<"u","r","n",":","1">>
BodyId   == <<"i","d",":","1">>

\* Mutant: without the header the id stays as it was initialised.
PostIdOfHeaderOnly(outcome) ==
    IF outcome = "created-header" THEN RestliId
    ELSE DryRunPrefix \o Digits(now)

\* headers["x-restli-id"] ?? data?.id ?? "unknown"
PostIdOf(outcome) ==
    IF outcome = "created-header" THEN RestliId
    ELSE IF outcome = "created-body" THEN BodyId
    ELSE Unknown

PostOutcomes ==
    {"created-header", "created-body", "created-noid", "http-error",
     "network-error", "timeout-after-create"}

\* The submission was answered 2xx.
PostAnswered(outcome) ==
    outcome \in {"created-header", "created-body", "created-noid"}

\* The post submission.  A post exists on the network after a 2xx answer, and
\* also when the answer was lost after the network had accepted the post.
PubPost(outcome) ==
    /\ pub.pc = "post"
    /\ net' = Append(net, [call |-> "post", ok |-> PostAnswered(outcome)])
    /\ posts' = IF outcome \in {"http-error", "network-error"}
                THEN posts
                ELSE posts \cup {[commentary |-> pub.cleanText,
                                  media |-> pub.imageUrn,
                                  by |-> pub.count]}
    /\ IF PostAnswered(outcome)
       THEN /\ pub' = [pub EXCEPT !.pc = "update",
                                  !.linkedinPostId = PostIdOf(outcome)]
            /\ UNCHANGED pubResp
       ELSE /\ pub' = [pub EXCEPT !.pc = "done"]
            /\ pubResp' = IF outcome = "http-error"
                          THEN ErrResp(401, "LinkedIn API error")
                          ELSE ErrResp(500, "Internal server error")
    /\ UNCHANGED <<drafts, env>>

\* Mutant: the update marks the draft published in a dry run too.
UpdatedDraftAlwaysPublished(d, q) ==
    [d EXCEPT !.selectedModel = q.selectedModel,
              !.finalText = q.text,
              !.imageUrl = IF q.route = "current"
                           THEN (IF q.imageUrl = NoImage THEN Null ELSE q.imageUrl)
                           ELSE d.imageUrl,
              !.linkedinPostId = q.linkedinPostId,
              !.published = TRUE]

\* The data of prisma.draft.update: the legacy handler names no imageUrl.
UpdatedDraft(d, q) ==
    [d EXCEPT !.selectedModel = q.selectedModel,
              !.finalText = q.text,
              !.imageUrl = IF q.route = "current"
                           THEN (IF q.imageUrl = NoImage THEN Null ELSE q.imageUrl)
                           ELSE d.imageUrl,
              !.linkedinPostId = q.linkedinPostId,
              !.published = ~q.dryRun]

PublishedMessage(q) ==
    IF q.dryRun THEN "Draft saved (dry run)."
    ELSE IF q.imageUrl # NoImage THEN "Published to LinkedIn with image successfully!"
    ELSE "Published to LinkedIn successfully!"

\* Lines 176-196 (current), 82-99 (legacy): the draft update and the response;
\* an update of a row that does not exist throws and ends in the catch block.
PubUpdate ==
    /\ pub.pc = "update"
    /\ LET i == FindDraft(pub.draftId)
       IN  IF i # 0
           THEN /\ drafts' = [drafts EXCEPT ![i] = UpdatedDraft(drafts[i], pub)]
                /\ pubResp' = [status |-> 200, success |-> TRUE,
                               linkedinPostId |-> pub.linkedinPostId,
                               dryRun |-> pub.dryRun,
                               message |-> PublishedMessage(pub)]
           ELSE /\ drafts' = drafts
                /\ pubResp' = ErrResp(500, "Internal server error")
    /\ pub' = [pub EXCEPT !.pc = "done", !.updates = pub.updates + 1]
    /\ UNCHANGED <<net, posts, env>>

----------------------------------------------------------------------------
(* Dashboard: DashboardPage, the React state and its handlers *)

NoOutputs == [id |-> <<>>]     \* outputs === null

\* prompt.trim()
RECURSIVE TrimStart(_)
TrimStart(t) ==
    IF t # <<>> /\ t[1] \in Whitespace THEN TrimStart(Tail(t)) ELSE t
RECURSIVE TrimEnd(_)
TrimEnd(t) ==
    IF t # <<>> /\ t[Len(t)] \in Whitespace
    THEN TrimEnd(SubSeq(t, 1, Len(t) - 1)) ELSE t
Trim(t) == TrimEnd(TrimStart(t))

\* useState initial values; gens and pubs count the fetches started so far.
UiInit ==
    [step |-> 0, prompt |-> <<>>, outputs |-> NoOutputs, selected |-> Null,
     generating |-> FALSE, publishing |-> FALSE, published |-> FALSE,
     status |-> Null, canvaConnected |-> FALSE, designs |-> {},
     loadingDesigns |-> FALSE, selectedDesign |-> Null,
     exportedImageUrl |-> Null, exporting |-> FALSE, gens |-> 0, pubs |-> 0]

\* The 200 bodies /api/generate can answer with, as the handler builds them:
\* the first call returns text, returns an empty text or fails; the last
\* returns text or a body without the expected field.
DashGenerateData ==
    { [id |-> DraftId(1),
       openai |-> SlotText("openai", a),
       gemini |-> SlotText("gemini", Fulfilled(<<"h","i">>)),
       claude |-> SlotText("claude", Fulfilled(<<"h","i">>)),
       geminiDirect |-> SlotText("geminiDirect", Fulfilled(<<"h","i">>)),
       groq |-> SlotText("groq", b)] :
      a \in {Fulfilled(<<"h","i">>), Fulfilled(<<>>), Rejected(Absent, <<"t">>)},
      b \in {Fulfilled(<<"h","i">>), Fulfilled(Absent)} }

DashPrompts == { <<" ">>, <<"p">> }
Designs == {"D1"}
ExportUrl == "https://img/a.png"

\* Mutant: every card can be clicked.
CardIsErrorNever(text) == FALSE

\* const isError = text.startsWith("[") of a model card.
CardIsError(text) == StartsWith(text, "[")

\* if (!text || text.startsWith("[")) in handlePublish.
PublishTextRefused(text) == Len(text) = 0 \/ StartsWith(text, "[")

\* onChange of the prompt textarea (disabled while generating).
SetPrompt(v) ==
    /\ ~ui.generating
    /\ ui.prompt # v
    /\ ui' = [ui EXCEPT !.prompt = v]
    /\ UNCHANGED <<inflight, sent>>

\* handleGenerate up to its fetch; the button is disabled while generating or
\* with a blank prompt.
HandleGenerate ==
    /\ ~ui.generating
    /\ Trim(ui.prompt) # <<>>
    /\ ui.gens < MaxDashGen
    /\ ui' = [ui EXCEPT !.generating = TRUE, !.outputs = NoOutputs,
                        !.selected = Null, !.selectedDesign = Null,
                        !.exportedImageUrl = Null, !.published = FALSE,
                        !.step = 0, !.status = "info", !.gens = ui.gens + 1]
    /\ inflight' = inflight \cup {"generate"}
    /\ UNCHANGED sent

\* handleGenerate after its fetch: a 200 body, or an error status (caught).
GenerateSettled(ok, data) ==
    /\ "generate" \in inflight
    /\ inflight' = inflight \ {"generate"}
    /\ ui' = IF ok
             THEN [ui EXCEPT !.outputs = data, !.step = 1, !.status = "success",
                             !.generating = FALSE]
             ELSE [ui EXCEPT !.status = "error", !.generating = FALSE]
    /\ UNCHANGED sent

\* loadDesigns up to its fetch.
LoadDesignsStart(u) ==
    [u EXCEPT !.loadingDesigns = TRUE]

\* onClick of a model card (rendered when outputs && step >= 1), then
\* handleModelSelect.
HandleModelSelect(model) ==
    /\ ui.outputs # NoOutputs
    /\ ui.step >= 1
    /\ ~CardIsError(ui.outputs[model])
    /\ LET picked == [ui EXCEPT !.selected = model, !.step = 2]
           load == ui.canvaConnected /\ ui.designs = {}
       IN  /\ ui' = IF load THEN LoadDesignsStart(picked) ELSE picked
           /\ inflight' = IF load THEN inflight \cup {"designs"} ELSE inflight
    /\ UNCHANGED sent

\* loadDesigns after its fetch.
DesignsSettled(ok) ==
    /\ "designs" \in inflight
    /\ inflight' = inflight \ {"designs"}
    /\ ui' = IF ok
             THEN [ui EXCEPT !.designs = Designs, !.loadingDesigns = FALSE]
             ELSE [ui EXCEPT !.status = "error", !.loadingDesigns = FALSE]
    /\ UNCHANGED sent

\* handleDesignSelect up to its fetch; a design button is rendered in step >= 2
\* with Canva connected, and is disabled while exporting.
HandleDesignSelect(design) ==
    /\ ui.step >= 2
    /\ ui.canvaConnected
    /\ design \in ui.designs
    /\ ~ui.exporting
    /\ ui' = [ui EXCEPT !.selectedDesign = design, !.exporting = TRUE,
                        !.status = "info"]
    /\ inflight' = inflight \cup {"export"}
    /\ UNCHANGED sent

\* handleDesignSelect after its fetch.
ExportSettled(ok) ==
    /\ "export" \in inflight
    /\ inflight' = inflight \ {"export"}
    /\ ui' = IF ok
             THEN [ui EXCEPT !.exportedImageUrl = ExportUrl, !.step = 3,
                             !.status = "success", !.exporting = FALSE]
             ELSE [ui EXCEPT !.status = "error", !.selectedDesign = Null,
                             !.exporting = FALSE]
    /\ UNCHANGED sent

\* handleSkipDesign (its button is rendered in step >= 2).
HandleSkipDesign ==
    /\ ui.step >= 2
    /\ ui' = [ui EXCEPT !.selectedDesign = Null, !.exportedImageUrl = Null,
                        !.step = 3, !.status = Null]
    /\ UNCHANGED <<inflight, sent>>

\* handlePublish up to its fetch; the button is rendered in step >= 3 and is
\* disabled while publishing or once published.
HandlePublish ==
    /\ ui.step >= 3
    /\ ~ui.publishing
    /\ ~ui.published
    /\ IF ui.outputs = NoOutputs \/ ui.selected = Null
       THEN UNCHANGED <<ui, inflight, sent>>
       ELSE IF PublishTextRefused(ui.outputs[ui.selected])
       THEN /\ ui' = [ui EXCEPT !.status = "error"]
            /\ UNCHANGED <<inflight, sent>>
       ELSE /\ ui.pubs < MaxDashPub
            /\ ui' = [ui EXCEPT !.publishing = TRUE, !.status = "info",
                                !.pubs = ui.pubs + 1]
            /\ inflight' = inflight \cup {"publish"}
            /\ sent' = Append(sent,
                         [draftId |-> ui.outputs.id,
                          selectedModel |-> ui.selected,
                          text |-> ui.outputs[ui.selected],
                          imageUrl |-> IF ui.exportedImageUrl = Null
                                       THEN NoImage ELSE ui.exportedImageUrl])

\* handlePublish after its fetch: a 200 body with its dryRun flag, or an error.
PublishSettled(ok, dryRun) ==
    /\ "publish" \in inflight
    /\ inflight' = inflight \ {"publish"}
    /\ ui' = IF ok
             THEN [ui EXCEPT !.published = ~dryRun,
                             !.status = IF dryRun THEN "info" ELSE "success",
                             !.publishing = FALSE]
             ELSE [ui EXCEPT !.status = "error", !.publishing = FALSE]
    /\ UNCHANGED sent

\* handleStartOver (its button is rendered in step >= 3).
HandleStartOver ==
    /\ ui.step >= 3
    /\ ui' = [ui EXCEPT !.step = 0, !.prompt = <<>>, !.outputs = NoOutputs,
                        !.selected = Null, !.selectedDesign = Null,
                        !.exportedImageUrl = Null, !.published = FALSE,
                        !.status = Null]
    /\ UNCHANGED <<inflight, sent>>

----------------------------------------------------------------------------
(* Middleware and POST /api/auth/login *)

\* A pathname is a sequence of segments; its text is "/" before each segment.
SegmentText(seg) ==
    CASE seg = "login"       -> <<"l","o","g","i","n">>
      [] seg = "api"         -> <<"a","p","i">>
      [] seg = "auth"        -> <<"a","u","t","h">>
      [] seg = "authors"     -> <<"a","u","t","h","o","r","s">>
      [] seg = "_next"       -> <<"_","n","e","x","t">>
      [] seg = "favicon.ico" -> <<"f","a","v","i","c","o","n",".","i","c","o">>
      [] seg = "dashboard"   -> <<"d","a","s","h","b","o","a","r","d">>
      [] seg = "generate"    -> <<"g","e","n","e","r","a","t","e">>
      [] seg = "publish"     -> <<"p","u","b","l","i","s","h">>
      [] seg = "drafts"      -> <<"d","r","a","f","t","s">>
      [] seg = "canva"       -> <<"c","a","n","v","a">>
      [] seg = "callback"    -> <<"c","a","l","l","b","a","c","k">>
      [] seg = "export"      -> <<"e","x","p","o","r","t">>
      [] seg = "x"           -> <<"x">>

RECURSIVE PathText(_)
PathText(segs) ==
    IF segs = <<>> THEN <<>>
    ELSE <<"/">> \o SegmentText(Head(segs)) \o PathText(Tail(segs))

\* request.nextUrl.pathname
Pathname(segs) == IF segs = <<>> THEN <<"/">> ELSE PathText(segs)

\* The paths requested.
GatePaths ==
    { <<>>, <<"login">>, <<"api","auth","login">>, <<"api","authors">>,
      <<"_next","x">>, <<"favicon.ico">>,
      <<"dashboard">>, <<"dashboard","x">>,
      <<"api","generate">>, <<"api","publish">>, <<"api","drafts">>,
      <<"api","canva","auth">>, <<"api","canva","callback">>,
      <<"api","canva","export">>, <<"api","x">> }

\* config.matcher: "/dashboard/:path*" and "/api/<name>/:path*" match the
\* named segments followed by any number of segments.
MatcherMatches(segs) ==
    \/ Len(segs) >= 1 /\ segs[1] = "dashboard"
    \/ /\ Len(segs) >= 2
       /\ segs[1] = "api"
       /\ segs[2] \in {"generate", "publish", "drafts", "canva"}

\* Mutant: any auth cookie lets the request through.
MiddlewareAnyCookie(pathname, authToken) ==
    IF \/ pathname = <<"/","l","o","g","i","n">>
       \/ HasPrefix(pathname, <<"/","a","p","i","/","a","u","t","h">>)
       \/ HasPrefix(pathname, <<"/","_","n","e","x","t">>)
       \/ pathname = <<"/","f","a","v","i","c","o","n",".","i","c","o">>
    THEN "next"
    ELSE IF authToken = "undefined"
    THEN IF ~HasPrefix(pathname, <<"/","a","p","i","/">>) THEN "redirect" ELSE "401"
    ELSE "next"

\* middleware(request): NextResponse.next(), the redirect to /login or the
\* 401 JSON answer.
Middleware(pathname, authToken) ==
    IF \/ pathname = <<"/","l","o","g","i","n">>
       \/ HasPrefix(pathname, <<"/","a","p","i","/","a","u","t","h">>)
       \/ HasPrefix(pathname, <<"/","_","n","e","x","t">>)
       \/ pathname = <<"/","f","a","v","i","c","o","n",".","i","c","o">>
    THEN "next"
    ELSE IF authToken # "authenticated"
    THEN IF ~HasPrefix(pathname, <<"/","a","p","i","/">>) THEN "redirect" ELSE "401"
    ELSE "next"

\* The framework runs the middleware on the paths the matcher matches only.
Dispatch(segs, authToken) ==
    IF MatcherMatches(segs) THEN Middleware(Pathname(segs), authToken) ELSE "next"

\* cookie: the browser's auth_token cookie; adminPassword: ADMIN_PASSWORD;
\* path, sentCookie: the last request; through: it reached its route (page or
\* handler); resp: the answer of the middleware or of the login handler.
GateIdle == [cookie |-> "undefined", adminPassword |-> "unset", path |-> <<>>,
             sentCookie |-> "undefined", through |-> FALSE, resp |-> [status |-> 0]]

\* A request of the browser for a path, with its cookie.
Visit(segs) ==
    LET verdict == Dispatch(segs, gate.cookie)
    IN  gate' = [gate EXCEPT
                   !.path = segs,
                   !.sentCookie = gate.cookie,
                   !.through = (verdict = "next"),
                   !.resp = CASE verdict = "next" -> [status |-> 0]
                              [] verdict = "redirect" ->
                                   [status |-> 307, location |-> <<"login">>]
                              [] verdict = "401" ->
                                   [status |-> 401, error |-> "Unauthorized"]]

\* POST /api/auth/login with a password ("undefined": a body without one).
Login(password) ==
    LET segs == <<"api", "auth", "login">>
        ok == /\ password # "undefined"
              /\ gate.adminPassword # "unset"
              /\ password = gate.adminPassword
    IN  /\ Dispatch(segs, gate.cookie) = "next"
        /\ gate' = [gate EXCEPT
                      !.path = segs,
                      !.sentCookie = gate.cookie,
                      !.through = TRUE,
                      !.cookie = IF ok THEN "authenticated" ELSE gate.cookie,
                      !.resp = IF password = "undefined"
                               THEN [status |-> 400, error |-> "Password required"]
                               ELSE IF ~ok
                               THEN [status |-> 401, error |-> "Invalid password"]
                               ELSE [status |-> 200, success |-> TRUE]]

\* The cookie lapses (maxAge of 24 hours) or is set by hand in the browser.
CookieChange(v) ==
    /\ gate.cookie # v
    /\ gate' = [gate EXCEPT !.cookie = v]

----------------------------------------------------------------------------
(* Canva OAuth: GET /api/canva/auth, GET /api/canva/callback and            *)
(* GET /api/canva/status over the CanvaToken table                          *)

Missing == "undefined"     \* a cookie, or a field of a token response, not there
NoCookies == [canva_code_verifier |-> Missing, canva_oauth_state |-> Missing]

\* A request without query string.
NoQuery == [code |-> Null, state |-> Null, error |-> Null]

\* crypto.randomBytes of the n-th authorization start: values never repeat.
CodeVerifier(n) == <<"v1", "v2", "v3", "v4">>[n]
OAuthState(n)   == <<"s1", "s2", "s3", "s4">>[n]
\* sha256(codeVerifier) as base64url
CodeChallenge(v) == <<"S256", v>>

\* process.env of the authorization start
CanvaEnvSet == [CANVA_CLIENT_ID |-> "cid", CANVA_REDIRECT_URI |-> "uri"]

SecondMs == 1000     \* expires_in counts seconds, Date.now() milliseconds

\* A 2xx answer of the token endpoint; expires_in is {} when the field is not
\* in the answer, and otherwise holds its value.
TokenResponses ==
    { [access_token |-> "at1", refresh_token |-> "rt1", expires_in |-> {1}],
      [access_token |-> "at2", refresh_token |-> Missing, expires_in |-> {}],
      [access_token |-> "at3", refresh_token |-> "rt3", expires_in |-> {0}] }

\* tokenData.expires_in ? new Date(Date.now() + tokenData.expires_in * 1000) : null
\* (null is the empty set, a date the set of its milliseconds)
ExpiresAt(expires_in, t) ==
    IF expires_in # {} /\ expires_in # {0}
    THEN { t + e * SecondMs : e \in expires_in }
    ELSE {}

\* The create and update data of the callback's upsert.
CallbackTokenData(tokenData, t) ==
    [accessToken  |-> tokenData.access_token,
     refreshToken |-> IF tokenData.refresh_token # Missing
                      THEN tokenData.refresh_token ELSE Null,
     expiresAt    |-> ExpiresAt(tokenData.expires_in, t)]

\* The row of a table with the given id, as a set of at most one row.
TokenRows(table, id) == { r \in table : r.id = id }

\* The rows insert-only storage would leave: one more row per authorization.
InsertToken(table, data) ==
    table \cup {[id |-> IF table = {} THEN "singleton" ELSE "second",
                 accessToken |-> data.accessToken,
                 refreshToken |-> data.refreshToken,
                 expiresAt |-> data.expiresAt]}

\* prisma.canvaToken.upsert({ where: { id: "singleton" }, create, update })
UpsertToken(table, data) ==
    (table \ TokenRows(table, "singleton"))
        \cup {[id |-> "singleton",
               accessToken |-> data.accessToken,
               refreshToken |-> data.refreshToken,
               expiresAt |-> data.expiresAt]}

\* prisma.canvaToken.findUnique({ where: { id: "singleton" } }) finds a row
HasToken(table) == TokenRows(table, "singleton") # {}

\* The row it finds.
FindToken(table) == CHOOSE r \in TokenRows(table, "singleton") : TRUE

\* Expired whenever an expiry is stored.
TokenExpiredIfDated(token, t) == token.expiresAt # {}

\* token.expiresAt && token.expiresAt < new Date()
TokenExpired(token, t) == \E e \in token.expiresAt : e < t

\* NextResponse.redirect(dashboardUrl(msg))
Redirect(msg) == [status |-> 307, location |-> msg]

\* auth: count of authorization starts that issued a state; resp: the answer of
\* the last one.
AuthIdle == [count |-> 0, resp |-> NoResp]

\* GET /api/canva/auth: the browser follows the redirect and stores the cookies.
AuthStart ==
    /\ auth.count < MaxAuth
    /\ IF canvaEnv.CANVA_CLIENT_ID = Missing \/ canvaEnv.CANVA_REDIRECT_URI = Missing
       THEN /\ auth' = [auth EXCEPT !.resp =
                          ErrResp(500, "Canva credentials not configured. Set CANVA_CLIENT_ID and CANVA_REDIRECT_URI.")]
            /\ UNCHANGED <<jar, lastConnected>>
       ELSE LET n == auth.count + 1
            IN  /\ auth' = [count |-> n,
                            resp |-> [status |-> 307,
                                      state |-> OAuthState(n),
                                      code_challenge |-> CodeChallenge(CodeVerifier(n))]]
                /\ jar' = [canva_code_verifier |-> CodeVerifier(n),
                           canva_oauth_state |-> OAuthState(n)]
                /\ lastConnected' = NoQuery
    /\ UNCHANGED <<tokens, cb, st, canvaEnv, now>>

\* maxAge: 600 on both cookies, set by the same response: they lapse together.
CookiesLapse ==
    /\ jar # NoCookies
    /\ jar' = NoCookies
    /\ UNCHANGED <<tokens, auth, cb, st, canvaEnv, lastConnected, now>>

\* The query strings of a callback (searchParams.get gives null for a
\* parameter that is not there).
CallbackQueries ==
    [code : {Null, "c1"},
     state : {Null, "", OAuthState(1), OAuthState(2)},
     error : {Null, "access_denied"}]

\* Cookie headers of a request that does not come from the operator's browser.
ForeignCookies ==
    { [canva_code_verifier |-> Missing, canva_oauth_state |-> OAuthState(1)] }

\* !code, !state, if (error): null and "" are falsy.
Falsy(v) == v = Null \/ v = ""

\* The state check that lets every callback through.
StateAcceptedAlways(state, savedState) == TRUE

\* state !== savedState, negated
StateAccepted(state, savedState) == state = savedState

\* The body of the token-exchange request; code_verifier is left out when the
\* cookie is not there.
ExchangeBody(code, codeVerifier) ==
    [grant_type |-> "authorization_code", code |-> code,
     code_verifier |-> IF codeVerifier # Missing /\ codeVerifier # ""
                       THEN codeVerifier ELSE Missing]

NoExchange == [grant_type |-> "none"]

\* browser: the request carried the cookies of the operator's browser;
\* query: its query string; savedState: its canva_oauth_state cookie; sent: the
\* token-exchange request it has sent; count: callbacks handled so far.
CallbackIdle == [pc |-> "idle", browser |-> TRUE, query |-> NoQuery,
                 savedState |-> Missing, sent |-> NoExchange, resp |-> NoResp,
                 count |-> 0]

\* Lines 10-56: the parameter checks, the state check and the sending of the
\* token-exchange request.
CallbackStart(query, browser, foreign) ==
    /\ cb.pc \in {"idle", "done"}
    /\ cb.count < MaxCallback
    /\ LET cookies == IF browser THEN jar ELSE foreign
           base == [CallbackIdle EXCEPT !.browser = browser, !.query = query,
                                        !.savedState = cookies.canva_oauth_state,
                                        !.count = cb.count + 1]
           done(msg) == cb' = [base EXCEPT !.pc = "done", !.resp = Redirect(msg)]
       IN  IF ~Falsy(query.error)
           THEN done(<<"canva_error", query.error>>)
           ELSE IF Falsy(query.code) \/ Falsy(query.state)
           THEN done(<<"canva_error", "missing_params">>)
           ELSE IF ~StateAccepted(query.state, cookies.canva_oauth_state)
           THEN done(<<"canva_error", "invalid_state">>)
           ELSE cb' = [base EXCEPT
                         !.pc = "exchange",
                         !.sent = ExchangeBody(query.code,
                                               cookies.canva_code_verifier)]
    /\ UNCHANGED <<tokens, jar, auth, st, canvaEnv, lastConnected, now>>

\* The answers the exchange can get: a 2xx answer with its JSON, a non-2xx
\* answer, a fetch that throws, a 2xx answer whose body is not JSON.
ExchangeOutcomes ==
    { [kind |-> "ok", data |-> d] : d \in TokenResponses }
        \cup { [kind |-> k] : k \in {"non-2xx", "network-error", "bad-json"} }

\* response.cookies.delete of one cookie only.
ClearedVerifierOnly(cookies) == [cookies EXCEPT !.canva_code_verifier = Missing]

\* response.cookies.delete("canva_code_verifier"); delete("canva_oauth_state")
ClearedCookies(cookies) ==
    [cookies EXCEPT !.canva_code_verifier = Missing,
                    !.canva_oauth_state = Missing]

\* The failure answers of the callback, a raw 500 in place of the redirect.
ExchangeFailedRaw(kind) == ErrResp(500, "Internal server error")

\* Lines 58-62 and 92-95: the answer when the exchange or the storing failed.
ExchangeFailed(kind) ==
    IF kind = "non-2xx" THEN Redirect(<<"canva_error", "token_exchange_failed">>)
    ELSE Redirect(<<"canva_error", "server_error">>)

\* Lines 58-95: the answer of the token endpoint, the upsert and the redirect;
\* stored is FALSE when the upsert throws.
CallbackSettle(outcome, stored) ==
    /\ cb.pc = "exchange"
    /\ IF outcome.kind = "ok" /\ stored
       THEN /\ tokens' = UpsertToken(tokens, CallbackTokenData(outcome.data, now))
            /\ cb' = [cb EXCEPT !.pc = "done",
                                !.resp = Redirect(<<"canva_connected", "true">>)]
            /\ IF cb.browser
               THEN /\ jar' = ClearedCookies(jar)
                    /\ lastConnected' = cb.query
               ELSE UNCHANGED <<jar, lastConnected>>
            /\ st' = IF st.pc = "refresh" THEN [st EXCEPT !.overtaken = TRUE]
                     ELSE st
       ELSE /\ cb' = [cb EXCEPT
                        !.pc = "done",
                        !.resp = ExchangeFailed(IF outcome.kind = "ok"
                                                THEN "store" ELSE outcome.kind)]
            /\ UNCHANGED <<tokens, jar, lastConnected, st>>
    /\ UNCHANGED <<auth, canvaEnv, now>>

\* Mutant: the refresh token of the answer is stored as it comes.
RefreshTokenDataNoFallback(data, refreshToken, t) ==
    [accessToken  |-> data.access_token,
     refreshToken |-> IF data.refresh_token # Missing
                      THEN data.refresh_token ELSE Null,
     expiresAt    |-> ExpiresAt(data.expires_in, t)]

\* The data of the refresh's update: data.refresh_token ?? refreshToken keeps
\* the stored refresh token when the answer carries none.
RefreshTokenData(data, refreshToken, t) ==
    [accessToken  |-> data.access_token,
     refreshToken |-> IF data.refresh_token # Missing
                      THEN data.refresh_token ELSE refreshToken,
     expiresAt    |-> ExpiresAt(data.expires_in, t)]

\* An update that writes the access token only.
UpdateAccessTokenOnly(table, data) ==
    { [r EXCEPT !.accessToken = data.accessToken] : r \in TokenRows(table, "singleton") }
        \cup (table \ TokenRows(table, "singleton"))

\* Mutant: the update is given up when the stored row is no longer expired.
UpdateTokenIfStillExpired(table, data) ==
    IF \E r \in TokenRows(table, "singleton") : TokenExpired(r, now)
    THEN { [r EXCEPT !.accessToken = data.accessToken,
                     !.refreshToken = data.refreshToken,
                     !.expiresAt = data.expiresAt] : r \in TokenRows(table, "singleton") }
             \cup (table \ TokenRows(table, "singleton"))
    ELSE table

\* prisma.canvaToken.update({ where: { id: "singleton" }, data })
UpdateToken(table, data) ==
    { [r EXCEPT !.accessToken = data.accessToken,
                !.refreshToken = data.refreshToken,
                !.expiresAt = data.expiresAt] : r \in TokenRows(table, "singleton") }
        \cup (table \ TokenRows(table, "singleton"))

\* refreshToken: the argument of refreshCanvaToken; sent: a refresh request
\* was sent for the check; refresh: how the refresh ended ("none": no refresh);
\* answers: the connected field of every answer so far, oldest first;
\* overtaken: a callback stored its tokens while the refresh request of this
\* check was awaited (not a value of the code: the order of the two writes).
StatusIdle == [pc |-> "idle", refreshToken |-> Null, sent |-> FALSE,
               refresh |-> "none", resp |-> NoResp, answers |-> <<>>,
               overtaken |-> FALSE]

\* Lines 73-94 and 100-117: the token lookup, the expiry check and, for an
\* expired token with a refresh token, the sending of the refresh request.
StatusStart ==
    /\ st.pc \in {"idle", "done"}
    /\ Len(st.answers) + 1 <= MaxStatus
    /\ LET token == FindToken(tokens)
           base == [StatusIdle EXCEPT !.answers = st.answers]
           done(resp) == st' = [base EXCEPT !.pc = "done", !.resp = resp,
                                           !.answers = Append(st.answers,
                                                              resp.connected)]
       IN  IF ~HasToken(tokens)
           THEN done([status |-> 200, connected |-> FALSE])
           ELSE IF TokenExpired(token, now)
           THEN IF token.refreshToken # Null /\ token.refreshToken # ""
                THEN st' = [base EXCEPT !.pc = "refresh", !.sent = TRUE,
                                        !.refreshToken = token.refreshToken]
                ELSE done([status |-> 200, connected |-> FALSE, expired |-> TRUE])
           ELSE done([status |-> 200, connected |-> TRUE])
    /\ UNCHANGED <<tokens, jar, auth, cb, canvaEnv, lastConnected, now>>

\* Lines 119-137 and 87-91: the answer of the refresh request, the update of
\* the row and the answer of the check; stored is FALSE when the update throws.
StatusRefreshSettle(outcome, stored) ==
    /\ st.pc = "refresh"
    /\ IF outcome.kind = "ok" /\ stored /\ HasToken(tokens)
       THEN /\ tokens' = UpdateToken(tokens,
                             RefreshTokenData(outcome.data, st.refreshToken, now))
            /\ st' = [st EXCEPT !.pc = "done", !.refresh = "ok",
                                !.resp = [status |-> 200, connected |-> TRUE],
                                !.answers = Append(st.answers, TRUE)]
       ELSE /\ st' = [st EXCEPT !.pc = "done",
                                !.refresh = IF outcome.kind = "ok"
                                            THEN "store-failed" ELSE outcome.kind,
                                !.resp = [status |-> 200, connected |-> FALSE,
                                          expired |-> TRUE],
                                !.answers = Append(st.answers, FALSE)]
            /\ UNCHANGED tokens
    /\ UNCHANGED <<jar, auth, cb, canvaEnv, lastConnected, now>>

\* Time passes.
Tick ==
    /\ now < MaxTicks * SecondMs
    /\ now' = now + SecondMs
    /\ UNCHANGED <<tokens, jar, auth, cb, st, canvaEnv, lastConnected>>

----------------------------------------------------------------------------
(* Canva data: GET /api/canva/designs and POST /api/canva/export *)

\* What the design-tool API answers to a request: a status, or a fetch that
\* throws.  It answers 401 to an access token that has expired.
UpstreamAnswers(expired) ==
    IF expired THEN {"401", "network-error"}
    ELSE {"200", "401", "403", "500", "network-error"}

\* noToken: no row was found; expired: the row found had expired; upstream:
\* the answer to the first request sent to the API ("none": nothing was sent);
\* calls: requests sent to the API.
DesignsIdle == [pc |-> "idle", noToken |-> FALSE, expired |-> FALSE,
                upstream |-> "none", calls |-> 0, resp |-> NoResp, count |-> 0]

\* Lines 10-35: the token lookup and the sending of the listing request.
DesignsStart ==
    /\ dsg.pc \in {"idle", "done"}
    /\ dsg.count < MaxDesigns
    /\ LET base == [DesignsIdle EXCEPT !.count = dsg.count + 1]
       IN  IF ~HasToken(tokens)
           THEN dsg' = [base EXCEPT !.pc = "done", !.noToken = TRUE,
                                    !.resp = ErrResp(401, "Canva not connected")]
           ELSE dsg' = [base EXCEPT !.pc = "fetch", !.calls = 1,
                                    !.expired = TokenExpired(FindToken(tokens), now)]
    /\ UNCHANGED <<tokens, exp>>

\* Lines 37-62: the answer of the listing request.
DesignsSettle(answer) ==
    /\ dsg.pc = "fetch"
    /\ answer \in UpstreamAnswers(dsg.expired)
    /\ dsg' = [dsg EXCEPT
                 !.pc = "done",
                 !.upstream = answer,
                 !.resp = IF answer = "200" THEN [status |-> 200, items |-> Designs]
                          ELSE IF answer = "401"
                          THEN ErrResp(401, "Canva token expired. Please reconnect.")
                          ELSE IF answer = "network-error"
                          THEN ErrResp(500, "Internal server error")
                          ELSE ErrResp(IF answer = "403" THEN 403 ELSE 500,
                                       "Failed to fetch designs from Canva")]
    /\ UNCHANGED <<tokens, exp>>

\* bodySchema: designId is a string of at least one character
ExportBodies ==
    { [json |-> FALSE, designId |-> Missing],
      [json |-> TRUE, designId |-> Missing],
      [json |-> TRUE, designId |-> ""],
      [json |-> TRUE, designId |-> "D1"] }

ExportBodyValid(b) == b.json /\ b.designId # Missing /\ b.designId # ""

MaxPollAttempts == 15     \* for (let attempt = 0; attempt < 15; attempt++)

\* attempt: the loop counter of the polling loop; jobId: the submission
\* returned a job id; skipped: polls so far answered non-2xx; steady: every
\* poll before the one that ended the polling reported in_progress; ended:
\* what the poll that ended the polling saw ("none": no poll has ended it);
\* succeeded: some poll so far reported the status success; the other fields
\* as in DesignsIdle.
ExportIdle == [pc |-> "idle", noToken |-> FALSE, expired |-> FALSE,
               upstream |-> "none", calls |-> 0, attempt |-> 0,
               jobId |-> FALSE, skipped |-> 0, steady |-> TRUE,
               ended |-> "none", succeeded |-> FALSE, resp |-> NoResp,
               count |-> 0]

\* Lines 15-49: the token lookup, the validation of the body and the sending
\* of the request that creates the export job.
ExportStart(body) ==
    /\ exp.pc \in {"idle", "done"}
    /\ exp.count < MaxExport
    /\ LET base == [ExportIdle EXCEPT !.count = exp.count + 1]
           done(resp) == [base EXCEPT !.pc = "done", !.resp = resp]
       IN  IF ~HasToken(tokens)
           THEN exp' = [done(ErrResp(401, "Canva not connected"))
                           EXCEPT !.noToken = TRUE]
           ELSE IF ~body.json
           THEN exp' = done(ErrResp(500, "Internal server error"))
           ELSE IF ~ExportBodyValid(body)
           THEN exp' = done(ErrResp(400, "Invalid payload"))
           ELSE exp' = [base EXCEPT !.pc = "create", !.calls = 1,
                                    !.expired = TokenExpired(FindToken(tokens), now)]
    /\ UNCHANGED <<tokens, dsg>>

\* A submission whose answer is not inspected: polling starts whatever it was.
ExportCreateSettleUnchecked(answer, hasJobId) ==
    /\ exp.pc = "create"
    /\ answer \in UpstreamAnswers(exp.expired)
    /\ exp' = [exp EXCEPT !.pc = "poll", !.upstream = answer,
                          !.jobId = answer = "200" /\ hasJobId]
    /\ UNCHANGED <<tokens, dsg>>

\* Lines 51-68: the answer of the request that creates the job; hasJobId is
\* exportData.job?.id being there.
ExportCreateSettle(answer, hasJobId) ==
    /\ exp.pc = "create"
    /\ answer \in UpstreamAnswers(exp.expired)
    /\ exp' = IF answer = "network-error"
              THEN [exp EXCEPT !.pc = "done", !.upstream = answer,
                               !.resp = ErrResp(500, "Internal server error")]
              ELSE IF answer # "200"
              THEN [exp EXCEPT !.pc = "done", !.upstream = answer,
                               !.resp = ErrResp(IF answer = "401" THEN 401
                                                ELSE IF answer = "403" THEN 403
                                                ELSE 500,
                                                "Failed to start Canva export")]
              ELSE IF ~hasJobId
              THEN [exp EXCEPT !.pc = "done", !.upstream = answer,
                               !.resp = ErrResp(500, "No export job ID returned from Canva")]
              ELSE [exp EXCEPT !.pc = "poll", !.upstream = answer,
                               !.jobId = TRUE]
    /\ UNCHANGED <<tokens, dsg>>

\* What one poll of the job can see.
PollOutcomes ==
    {"not-ok", "in_progress", "success-url", "success-job-url", "success-no-url",
     "failed", "network-error"}

\* job.result?.urls?.[0] ?? job.urls?.[0] ?? null
PollImageUrl(outcome) ==
    IF outcome = "success-url" THEN "https://export/result.png"
    ELSE IF outcome = "success-job-url" THEN "https://export/job.png"
    ELSE Null

\* job?.status === "success"
PollSucceeded(outcome) ==
    outcome \in {"success-url", "success-job-url", "success-no-url"}

\* A poll answered non-2xx aborts as a fetch that throws does.
PollAbortsOnNotOk(outcome) == outcome \in {"network-error", "not-ok"}

\* The poll ends in the catch block: its fetch threw.
PollAborts(outcome) == outcome = "network-error"

\* A loop that gives up one pass early.
PollsLeftOneFewer(attempt) == attempt + 2 < MaxPollAttempts

\* A loop whose counter passes the bound.
PollsLeftOneMore(attempt) == attempt < MaxPollAttempts

\* attempt++ and attempt < 15: another pass follows the pass numbered attempt.
PollsLeft(attempt) == attempt + 1 < MaxPollAttempts

\* Lines 70-108: one pass of the polling loop and, after the last pass, the
\* 504 that follows the loop.
ExportPoll(outcome) ==
    /\ exp.pc = "poll"
    /\ exp.attempt < MaxPollAttempts
    /\ LET polled == [exp EXCEPT
                        !.calls = exp.calls + 1,
                        !.skipped = IF outcome = "not-ok" THEN exp.skipped + 1
                                    ELSE exp.skipped,
                        !.steady = exp.steady /\ outcome = "in_progress",
                        !.succeeded = exp.succeeded \/ PollSucceeded(outcome)]
           done(resp) == [polled EXCEPT !.pc = "done", !.resp = resp,
                                        !.steady = exp.steady,
                                        !.ended = outcome]
       IN  exp' =
             IF PollAborts(outcome)
             THEN done(ErrResp(500, "Internal server error"))
             ELSE IF PollImageUrl(outcome) # Null
             THEN done([status |-> 200, success |-> TRUE,
                        imageUrl |-> PollImageUrl(outcome)])
             ELSE IF outcome = "failed"
             THEN done(ErrResp(500, "Canva export job failed"))
             ELSE IF PollsLeft(exp.attempt)
             THEN [polled EXCEPT !.attempt = exp.attempt + 1]
             ELSE done(ErrResp(504, "Export timed out after 30 seconds"))
    /\ UNCHANGED <<tokens, dsg>>

\* The Canva integration before any of its requests, not configured.
CanvaOff ==
    /\ canvaEnv = [CANVA_CLIENT_ID |-> Missing, CANVA_REDIRECT_URI |-> Missing]
    /\ jar = NoCookies
    /\ tokens = {}
    /\ auth = AuthIdle
    /\ cb = CallbackIdle
    /\ st = StatusIdle
    /\ lastConnected = NoQuery
    /\ dsg = DesignsIdle
    /\ exp = ExportIdle

----------------------------------------------------------------------------
(* Specification of the generate flow *)

EnvOff == [PUBLISH_ENABLED |-> "unset", LINKEDIN_ACCESS_TOKEN |-> "",
           LINKEDIN_AUTHOR_URN |-> ""]

InitGen ==
    /\ hits = [k \in {} |-> <<>>]
    /\ now = 0
    /\ drafts = <<>>
    /\ gen = GenIdle
    /\ calls = [p \in Providers |-> NoCall]
    /\ genResp = NoResp
    /\ env = EnvOff
    /\ pub = PubIdle
    /\ pubResp = NoResp
    /\ net = <<>>
    /\ posts = {}
    /\ ui = UiInit
    /\ inflight = {}
    /\ sent = <<>>
    /\ rl = LimiterIdle
    /\ md = StripIdle
    /\ arrivals = <<>>
    /\ gate = GateIdle
    /\ CanvaOff

NextGen ==
    \/ \E body \in GenBodies :
           GenStart("a", body) /\ UNCHANGED <<pubVars, dashVars, canvaVars, rl, md, arrivals, gate>>
    \/ GenLaunch /\ UNCHANGED <<pubVars, dashVars, canvaVars, rl, md, arrivals, gate>>
    \/ \E p \in Providers, o \in GenOutcomes :
           GenSettle(p, o) /\ UNCHANGED <<pubVars, dashVars, canvaVars, rl, md, arrivals, gate>>
    \/ GenJoin /\ UNCHANGED <<pubVars, dashVars, canvaVars, rl, md, arrivals, gate>>
    \/ GenRespond /\ UNCHANGED <<pubVars, dashVars, canvaVars, rl, md, arrivals, gate>>

SpecGen == InitGen /\ [][NextGen]_vars

\* The generate flow with its scheduling: the handler's own steps are taken
\* when they can be (it runs to its next await), and each started call
\* settles, by its answer, its failure or its timeout of 60 s.
GenHandlerStep ==
    (GenLaunch \/ GenJoin \/ GenRespond)
        /\ UNCHANGED <<pubVars, dashVars, canvaVars, rl, md, arrivals, gate>>

ProviderSettles(p) ==
    \E o \in GenOutcomes :
        GenSettle(p, o) /\ UNCHANGED <<pubVars, dashVars, canvaVars, rl, md, arrivals, gate>>

SpecGenLive ==
    /\ InitGen
    /\ [][NextGen]_vars
    /\ WF_vars(GenHandlerStep)
    /\ \A p \in Providers : WF_vars(ProviderSettles(p))

----------------------------------------------------------------------------
(* Specification of the generate flow with the settlement order observed *)

\* The outcomes told apart here: an answer with a text and a failure.
OrderOutcomes == { Fulfilled(<<"h","i">>), Rejected(Absent, <<"t">>) }

InitOrder == InitGen

NextOrder ==
    \/ \E body \in GenBodies :
           /\ GenStart("a", body)
           /\ arrivals' = <<>>
           /\ UNCHANGED <<pubVars, dashVars, canvaVars, rl, md, gate>>
    \/ GenLaunch /\ UNCHANGED <<pubVars, dashVars, canvaVars, rl, md, arrivals, gate>>
    \/ \E p \in Providers, o \in OrderOutcomes :
           /\ GenSettle(p, o)
           /\ arrivals' = Append(arrivals, p)
           /\ UNCHANGED <<pubVars, dashVars, canvaVars, rl, md, gate>>
    \/ GenJoin /\ UNCHANGED <<pubVars, dashVars, canvaVars, rl, md, arrivals, gate>>
    \/ GenRespond /\ UNCHANGED <<pubVars, dashVars, canvaVars, rl, md, arrivals, gate>>

SpecOrder == InitOrder /\ [][NextOrder]_vars

----------------------------------------------------------------------------
(* Specification of the generate flow with every kind of call outcome: an   *)
(* answer with a text, an answer without one, and failures that carry the   *)
(* vendor's message, only the transport's message, or no message at all     *)

SlotOutcomes ==
    { Fulfilled(<<"h","i">>), Fulfilled(Absent),
      Rejected(<<"v">>, <<"t">>), Rejected(Absent, <<"t">>),
      Rejected(Absent, Absent) }

InitSlots == InitGen

NextSlots ==
    \/ \E body \in GenBodies :
           GenStart("a", body) /\ UNCHANGED <<pubVars, dashVars, canvaVars, rl, md, arrivals, gate>>
    \/ GenLaunch /\ UNCHANGED <<pubVars, dashVars, canvaVars, rl, md, arrivals, gate>>
    \/ \E p \in Providers, o \in SlotOutcomes :
           GenSettle(p, o) /\ UNCHANGED <<pubVars, dashVars, canvaVars, rl, md, arrivals, gate>>
    \/ GenJoin /\ UNCHANGED <<pubVars, dashVars, canvaVars, rl, md, arrivals, gate>>
    \/ GenRespond /\ UNCHANGED <<pubVars, dashVars, canvaVars, rl, md, arrivals, gate>>

SpecSlots == InitSlots /\ [][NextSlots]_vars

----------------------------------------------------------------------------
(* Specification of the publish flow over a Draft Store filled by generate *)

EnvConfigs ==
    [PUBLISH_ENABLED : {"true", "false", "unset"},
     LINKEDIN_ACCESS_TOKEN : {"unset", "tok"},
     LINKEDIN_AUTHOR_URN : {"unset", AuthorPlaceholder, "urn:li:person:me"}]

\* Drafts as generate leaves them: none of the calls failed, one failed, all failed.
SeedFailures == { {}, {"openai"}, Providers }

SeedDraft(F) ==
    NewDraft(<<"p">>,
             [p \in Providers |->
                SlotText(p, IF p \in F THEN Rejected(Absent, <<"t">>)
                                       ELSE Fulfilled(<<"h","i">>))])

Init ==
    /\ hits = [k \in {} |-> <<>>]
    /\ now = 0
    /\ drafts \in { <<SeedDraft(F)>> : F \in SeedFailures }
    /\ gen = GenIdle
    /\ calls = [p \in Providers |-> NoCall]
    /\ genResp = NoResp
    /\ env \in EnvConfigs
    /\ pub = PubIdle
    /\ pubResp = NoResp
    /\ net = <<>>
    /\ posts = {}
    /\ ui = UiInit
    /\ inflight = {}
    /\ sent = <<>>
    /\ rl = LimiterIdle
    /\ md = StripIdle
    /\ arrivals = <<>>
    /\ gate = GateIdle
    /\ CanvaOff

Next ==
    \/ \E r \in Routes, b \in PubBodies :
           PubStart(r, b) /\ UNCHANGED <<genVars, dashVars, canvaVars, rl, md, arrivals, gate>>
    \/ \E ok \in BOOLEAN : PubDownload(ok) /\ UNCHANGED <<genVars, dashVars, canvaVars, rl, md, arrivals, gate>>
    \/ \E o \in {"ok", "http-error", "no-upload-url"} :
           PubInitializeUpload(o) /\ UNCHANGED <<genVars, dashVars, canvaVars, rl, md, arrivals, gate>>
    \/ \E ok \in BOOLEAN : PubPut(ok) /\ UNCHANGED <<genVars, dashVars, canvaVars, rl, md, arrivals, gate>>
    \/ \E o \in PostOutcomes : PubPost(o) /\ UNCHANGED <<genVars, dashVars, canvaVars, rl, md, arrivals, gate>>
    \/ PubUpdate /\ UNCHANGED <<genVars, dashVars, canvaVars, rl, md, arrivals, gate>>

Spec == Init /\ [][Next]_vars

----------------------------------------------------------------------------
(* Specification of the Draft Store across deployments: publish requests    *)
(* are handled while, between two of them, the credentials are added to or  *)
(* removed from the environment (the dry-run message asks for the former)   *)

LiveEnv ==
    [PUBLISH_ENABLED |-> "true", LINKEDIN_ACCESS_TOKEN |-> "tok",
     LINKEDIN_AUTHOR_URN |-> "urn:li:person:me"]

DryEnv ==
    [PUBLISH_ENABLED |-> "true", LINKEDIN_ACCESS_TOKEN |-> "unset",
     LINKEDIN_AUTHOR_URN |-> "unset"]

\* The service is restarted with another environment while no request runs.
Reconfigure(e) ==
    /\ pub.pc \in {"idle", "done"}
    /\ env # e
    /\ env' = e
    /\ UNCHANGED <<drafts, pub, pubResp, net, posts>>

InitStore ==
    /\ Init
    /\ env \in {LiveEnv, DryEnv}

NextStore ==
    \/ Next
    \/ \E e \in {LiveEnv, DryEnv} :
           Reconfigure(e) /\ UNCHANGED <<genVars, dashVars, canvaVars, rl, md, arrivals, gate>>

SpecStore == InitStore /\ [][NextStore]_vars

----------------------------------------------------------------------------
(* Specification of the dashboard: the servers answer in any way they can *)

InitDash ==
    /\ hits = [k \in {} |-> <<>>]
    /\ now = 0
    /\ drafts = <<>>
    /\ gen = GenIdle
    /\ calls = [p \in Providers |-> NoCall]
    /\ genResp = NoResp
    /\ env = EnvOff
    /\ pub = PubIdle
    /\ pubResp = NoResp
    /\ net = <<>>
    /\ posts = {}
    /\ ui \in { [UiInit EXCEPT !.canvaConnected = c] : c \in BOOLEAN }
    /\ inflight = {}
    /\ sent = <<>>
    /\ rl = LimiterIdle
    /\ md = StripIdle
    /\ arrivals = <<>>
    /\ gate = GateIdle
    /\ CanvaOff

serverVars == <<hits, now, drafts, gen, calls, genResp, env, pub, pubResp, net,
                posts, canvaVars, rl, md, arrivals, gate>>

NextDash ==
    \/ \E v \in DashPrompts : SetPrompt(v) /\ UNCHANGED serverVars
    \/ HandleGenerate /\ UNCHANGED serverVars
    \/ \E ok \in BOOLEAN, data \in DashGenerateData :
           GenerateSettled(ok, data) /\ UNCHANGED serverVars
    \/ \E m \in Providers : HandleModelSelect(m) /\ UNCHANGED serverVars
    \/ \E ok \in BOOLEAN : DesignsSettled(ok) /\ UNCHANGED serverVars
    \/ \E d \in Designs : HandleDesignSelect(d) /\ UNCHANGED serverVars
    \/ \E ok \in BOOLEAN : ExportSettled(ok) /\ UNCHANGED serverVars
    \/ HandleSkipDesign /\ UNCHANGED serverVars
    \/ HandlePublish /\ UNCHANGED serverVars
    \/ \E ok \in BOOLEAN, dryRun \in BOOLEAN :
           PublishSettled(ok, dryRun) /\ UNCHANGED serverVars
    \/ HandleStartOver /\ UNCHANGED serverVars

SpecDash == InitDash /\ [][NextDash]_vars

----------------------------------------------------------------------------
(* Specification of the OAuth flow: authorization starts, callbacks and     *)
(* status checks of one operator, interleaved, while time passes            *)

restVars == <<hits, drafts, gen, calls, genResp, pubVars, dashVars, rl, md, arrivals, gate>>

InitOAuth ==
    /\ hits = [k \in {} |-> <<>>]
    /\ now = 0
    /\ drafts = <<>>
    /\ gen = GenIdle
    /\ calls = [p \in Providers |-> NoCall]
    /\ genResp = NoResp
    /\ env = EnvOff
    /\ pub = PubIdle
    /\ pubResp = NoResp
    /\ net = <<>>
    /\ posts = {}
    /\ ui = UiInit
    /\ inflight = {}
    /\ sent = <<>>
    /\ rl = LimiterIdle
    /\ md = StripIdle
    /\ arrivals = <<>>
    /\ gate = GateIdle
    /\ canvaEnv \in {CanvaEnvSet, [CanvaEnvSet EXCEPT !.CANVA_REDIRECT_URI = Missing]}
    /\ jar = NoCookies
    /\ tokens = {}
    /\ auth = AuthIdle
    /\ cb = CallbackIdle
    /\ st = StatusIdle
    /\ lastConnected = NoQuery
    /\ dsg = DesignsIdle
    /\ exp = ExportIdle

NextOAuth ==
    \/ AuthStart /\ UNCHANGED <<restVars, dataVars>>
    \/ CookiesLapse /\ UNCHANGED <<restVars, dataVars>>
    \/ \E q \in CallbackQueries, browser \in BOOLEAN, foreign \in ForeignCookies :
           CallbackStart(q, browser, foreign) /\ UNCHANGED <<restVars, dataVars>>
    \/ \E o \in ExchangeOutcomes, stored \in BOOLEAN :
           CallbackSettle(o, stored) /\ UNCHANGED <<restVars, dataVars>>
    \/ StatusStart /\ UNCHANGED <<restVars, dataVars>>
    \/ \E o \in ExchangeOutcomes, stored \in BOOLEAN :
           StatusRefreshSettle(o, stored) /\ UNCHANGED <<restVars, dataVars>>
    \/ Tick /\ UNCHANGED <<restVars, dataVars>>

SpecOAuth == InitOAuth /\ [][NextOAuth]_vars

----------------------------------------------------------------------------
(* Specification of the Canva data endpoints over a CanvaToken table as the *)
(* OAuth flow leaves it                                                     *)

\* No row, a row without expiry, a row that expires at the first second.
SeedTokens ==
    { {},
      UpsertToken({}, CallbackTokenData(
          [access_token |-> "at2", refresh_token |-> Missing, expires_in |-> {}], 0)),
      UpsertToken({}, CallbackTokenData(
          [access_token |-> "at1", refresh_token |-> "rt1", expires_in |-> {1}], 0)) }

InitData ==
    /\ hits = [k \in {} |-> <<>>]
    /\ now = 0
    /\ drafts = <<>>
    /\ gen = GenIdle
    /\ calls = [p \in Providers |-> NoCall]
    /\ genResp = NoResp
    /\ env = EnvOff
    /\ pub = PubIdle
    /\ pubResp = NoResp
    /\ net = <<>>
    /\ posts = {}
    /\ ui = UiInit
    /\ inflight = {}
    /\ sent = <<>>
    /\ rl = LimiterIdle
    /\ md = StripIdle
    /\ arrivals = <<>>
    /\ gate = GateIdle
    /\ canvaEnv = CanvaEnvSet
    /\ jar = NoCookies
    /\ tokens \in SeedTokens
    /\ auth = AuthIdle
    /\ cb = CallbackIdle
    /\ st = StatusIdle
    /\ lastConnected = NoQuery
    /\ dsg = DesignsIdle
    /\ exp = ExportIdle

NextData ==
    \/ DesignsStart /\ UNCHANGED <<restVars, oauthVars, now>>
    \/ \E a \in UpstreamAnswers(FALSE) :
           DesignsSettle(a) /\ UNCHANGED <<restVars, oauthVars, now>>
    \/ \E b \in ExportBodies : ExportStart(b) /\ UNCHANGED <<restVars, oauthVars, now>>
    \/ \E a \in UpstreamAnswers(FALSE), hasJobId \in BOOLEAN :
           ExportCreateSettle(a, hasJobId) /\ UNCHANGED <<restVars, oauthVars, now>>
    \/ \E o \in PollOutcomes : ExportPoll(o) /\ UNCHANGED <<restVars, oauthVars, now>>
    \/ Tick /\ UNCHANGED <<restVars, dataVars>>

SpecData == InitData /\ [][NextData]_vars

----------------------------------------------------------------------------
(* Specification of successive status checks over a stored token while      *)
(* time passes: the token expires, is refreshed, expires again              *)

\* The answers of the token endpoint to a refresh, among them a 2xx answer
\* with a new expiry and no new refresh token.
RefreshAnswers ==
    ExchangeOutcomes \cup
        { [kind |-> "ok",
           data |-> [access_token |-> "at4", refresh_token |-> Missing,
                     expires_in |-> {1}]] }

InitRefresh == InitData

NextRefresh ==
    \/ StatusStart /\ UNCHANGED <<restVars, dataVars>>
    \/ \E o \in RefreshAnswers, stored \in BOOLEAN :
           StatusRefreshSettle(o, stored) /\ UNCHANGED <<restVars, dataVars>>
    \/ Wait /\ UNCHANGED <<drafts, gen, calls, genResp, pubVars, dashVars,
                            canvaVars, md, arrivals, gate>>

SpecRefresh == InitRefresh /\ [][NextRefresh]_vars

----------------------------------------------------------------------------
(* Specification of the export alone, with a stored token: every request    *)
(* the handler sends is answered, and the timer of the polling loop fires   *)

InitExport ==
    /\ hits = [k \in {} |-> <<>>]
    /\ now = 0
    /\ drafts = <<>>
    /\ gen = GenIdle
    /\ calls = [p \in Providers |-> NoCall]
    /\ genResp = NoResp
    /\ env = EnvOff
    /\ pub = PubIdle
    /\ pubResp = NoResp
    /\ net = <<>>
    /\ posts = {}
    /\ ui = UiInit
    /\ inflight = {}
    /\ sent = <<>>
    /\ rl = LimiterIdle
    /\ md = StripIdle
    /\ arrivals = <<>>
    /\ gate = GateIdle
    /\ canvaEnv = CanvaEnvSet
    /\ jar = NoCookies
    /\ tokens \in SeedTokens \ {{}}
    /\ auth = AuthIdle
    /\ cb = CallbackIdle
    /\ st = StatusIdle
    /\ lastConnected = NoQuery
    /\ dsg = DesignsIdle
    /\ exp = ExportIdle

ExportAnswered ==
    \E a \in UpstreamAnswers(FALSE), hasJobId \in BOOLEAN :
        ExportCreateSettle(a, hasJobId) /\ UNCHANGED <<restVars, oauthVars, now>>

ExportPolled ==
    \E o \in PollOutcomes : ExportPoll(o) /\ UNCHANGED <<restVars, oauthVars, now>>

NextExport ==
    \/ \E b \in ExportBodies : ExportStart(b) /\ UNCHANGED <<restVars, oauthVars, now>>
    \/ ExportAnswered
    \/ ExportPolled

SpecExport ==
    /\ InitExport
    /\ [][NextExport]_vars
    /\ WF_vars(ExportAnswered)
    /\ WF_vars(ExportPolled)

----------------------------------------------------------------------------
(* Specification of the rate limiter called on its own while time passes *)

InitLimiter ==
    /\ hits = [k \in {} |-> <<>>]
    /\ now = 0
    /\ drafts = <<>>
    /\ gen = GenIdle
    /\ calls = [p \in Providers |-> NoCall]
    /\ genResp = NoResp
    /\ env = EnvOff
    /\ pub = PubIdle
    /\ pubResp = NoResp
    /\ net = <<>>
    /\ posts = {}
    /\ ui = UiInit
    /\ inflight = {}
    /\ sent = <<>>
    /\ rl = LimiterIdle
    /\ md = StripIdle
    /\ arrivals = <<>>
    /\ gate = GateIdle
    /\ CanvaOff

NextLimiter ==
    \/ \E ip \in RateKeys :
           Admit(ip) /\ UNCHANGED <<drafts, gen, calls, genResp, pubVars,
                                    dashVars, canvaVars, md, arrivals, gate>>
    \/ Wait /\ UNCHANGED <<drafts, gen, calls, genResp, pubVars, dashVars,
                            canvaVars, md, arrivals, gate>>

SpecLimiter == InitLimiter /\ [][NextLimiter]_vars

----------------------------------------------------------------------------
(* Specification of the middleware: requests of one browser, logins and     *)
(* changes of its cookie                                                    *)

InitGate ==
    /\ hits = [k \in {} |-> <<>>]
    /\ now = 0
    /\ drafts = <<>>
    /\ gen = GenIdle
    /\ calls = [p \in Providers |-> NoCall]
    /\ genResp = NoResp
    /\ env = EnvOff
    /\ pub = PubIdle
    /\ pubResp = NoResp
    /\ net = <<>>
    /\ posts = {}
    /\ ui = UiInit
    /\ inflight = {}
    /\ sent = <<>>
    /\ rl = LimiterIdle
    /\ md = StripIdle
    /\ arrivals = <<>>
    /\ gate \in {[GateIdle EXCEPT !.adminPassword = a] : a \in {"unset", "pw"}}
    /\ CanvaOff

gateRest == <<hits, now, drafts, gen, calls, genResp, pubVars, dashVars,
              canvaVars, rl, md, arrivals>>

NextGate ==
    \/ \E segs \in GatePaths :
           Visit(segs) /\ UNCHANGED gateRest
    \/ \E password \in {"undefined", "pw", "bad"} :
           Login(password) /\ UNCHANGED gateRest
    \/ \E v \in {"undefined", "yes", "authenticated"} :
           CookieChange(v) /\ UNCHANGED gateRest

SpecGate == InitGate /\ [][NextGate]_vars

----------------------------------------------------------------------------
(* Specification of stripMarkdown called on its own on one text *)

InitStrip ==
    /\ hits = [k \in {} |-> <<>>]
    /\ now = 0
    /\ drafts = <<>>
    /\ gen = GenIdle
    /\ calls = [p \in Providers |-> NoCall]
    /\ genResp = NoResp
    /\ env = EnvOff
    /\ pub = PubIdle
    /\ pubResp = NoResp
    /\ net = <<>>
    /\ posts = {}
    /\ ui = UiInit
    /\ inflight = {}
    /\ sent = <<>>
    /\ rl = LimiterIdle
    /\ md \in {[StripIdle EXCEPT !.text = t] : t \in StripTexts}
    /\ arrivals = <<>>
    /\ gate = GateIdle
    /\ CanvaOff

NextStrip ==
    StripCall /\ UNCHANGED <<hits, now, drafts, gen, calls, genResp, pubVars,
                             dashVars, canvaVars, rl, arrivals, gate>>

SpecStrip == InitStrip /\ [][NextStrip]_vars

----------------------------------------------------------------------------
(* Properties of the generate flow (SpecGen) *)

IsText(t) == t # Absent /\ t # NullText

\* C1: a generate request that passed the limiter and validation is never
\* answered with an error; its 200 response holds exactly the keys id, openai,
\* gemini, claude, geminiDirect and groq, every one with a text value, whatever
\* subset of the five calls failed, and the draft it names stores these same
\* five values.
C1_FanOutKeepsEveryProvider ==
    /\ gen.passed => genResp.status \in {0, 200}
    /\ (gen.passed /\ gen.pc = "idle") => genResp.status = 200
    /\ genResp.status = 200 =>
          /\ DOMAIN genResp = {"status", "id"} \cup Providers
          /\ FindDraft(genResp.id) # 0
          /\ \A p \in Providers :
                /\ IsText(genResp[p])
                /\ DraftSlot(drafts[FindDraft(genResp.id)], p) = genResp[p]

\* C1 witness: all five calls failed and the request was answered with 200.
C1_Witness ==
    /\ genResp.status = 200
    /\ \A p \in Providers : calls[p].status = "rejected"

\* C2 (state part): the join is awaited only with all five calls started, and
\* the draft is created and the response sent only with all five settled.
C2_JoinState ==
    /\ gen.pc = "await" => \A p \in Providers : calls[p].status # "none"
    /\ (gen.creates > 0 \/ (gen.passed /\ genResp.status # 0)) =>
          \A p \in Providers : calls[p].status \in {"fulfilled", "rejected"}

\* C2 (step part): a started call stays pending until it settles itself; no
\* step of the handler or of a sibling takes it out of the pending state.
C2_NoCancel ==
    \A p \in Providers :
        calls[p].status = "pending" =>
            calls'[p].status \in {"pending", "fulfilled", "rejected"}

\* C2: all five provider calls are started before the join is awaited, no call
\* is cancelled by a sibling's failure or success, and neither the draft
\* creation nor the response precedes the settlement of all five.
C2_SettleAllJoin == []C2_JoinState /\ [][C2_NoCancel]_vars

\* C2 witness: the draft has been created after a mix of failures and successes.
C2_Witness ==
    /\ gen.pc = "created"
    /\ calls["openai"].status = "rejected"
    /\ calls["groq"].status = "fulfilled"

\* C3: a request that passed makes exactly one draft creation, after the join,
\* and the created draft carries the prompt and the five outputs; a request
\* answered 429 or 400 starts no provider call and creates no draft (the table
\* holds one draft per request that passed and was joined, never more).
C3_OneDraftPerAdmittedRequest ==
    /\ gen.creates <= 1
    /\ gen.creates = 1 <=> gen.pc \in {"created"} \/ (gen.passed /\ gen.pc = "idle")
    /\ gen.creates = 1 =>
          /\ gen.draftId = Len(drafts)
          /\ drafts[gen.draftId].prompt = gen.prompt
          /\ \A p \in Providers :
                /\ IsText(DraftSlot(drafts[gen.draftId], p))
                /\ DraftSlot(drafts[gen.draftId], p) = SlotText(p, calls[p])
    /\ Len(drafts) = IF gen.passed /\ gen.creates = 0
                     THEN gen.admitted - 1 ELSE gen.admitted
    /\ genResp.status \in {429, 400} =>
          /\ ~gen.passed
          /\ gen.creates = 0
          /\ \A p \in Providers : calls[p].status = "none"

\* C3 witness: a request is denied by the limiter after an earlier one created
\* its draft.
C3_Witness == genResp.status = 429 /\ Len(drafts) = 1

----------------------------------------------------------------------------
(* Properties of the publish flow (Spec) *)

NetCalls == { net[i].call : i \in 1..Len(net) }
UploadSteps == {"download", "initializeUpload", "put"}
UploadStepFailed ==
    \E i \in 1..Len(net) : net[i].call \in UploadSteps /\ ~net[i].ok
PostFailed == \E i \in 1..Len(net) : net[i].call = "post" /\ ~net[i].ok

\* The credentials are missing or the author is the placeholder (dry run).
CredentialsMissing ==
    \/ env.LINKEDIN_ACCESS_TOKEN \in {"unset", ""}
    \/ env.LINKEDIN_AUTHOR_URN \in {"unset", "", "urn:li:person:XXXX"}

\* C4: a publish request whose text begins with "[" is rejected: no post is
\* submitted for it and the draft is not updated.  (The handlers accept it.)
C4_BracketTextRejected ==
    (pub.valid /\ StartsWith(pub.text, "[")) =>
        /\ "post" \notin NetCalls
        /\ pub.updates = 0
        /\ drafts = pub.before

\* C6: a draft with a non-null selectedModel names a provider whose stored
\* output is real content, not a text beginning with "[".  (A publish request
\* sent directly can select a failed slot.)
C6_SelectedSlotPopulated ==
    \A i \in 1..Len(drafts) :
        drafts[i].selectedModel # Null =>
            /\ drafts[i].selectedModel \in Providers
            /\ ~StartsWith(DraftSlot(drafts[i], drafts[i].selectedModel), "[")

\* C7: with PUBLISH_ENABLED other than "true", every handled request, valid or
\* not, ends with the fixed 403 error, has made no outbound call, has created
\* no post and has left the Draft table as it was.
C7_KillSwitch ==
    (env.PUBLISH_ENABLED # "true" /\ pub.count > 0) =>
        /\ pub.pc = "done"
        /\ pubResp = [status |-> 403, error |-> "Publishing is currently disabled."]
        /\ net = <<>>
        /\ posts = {}
        /\ pub.updates = 0
        /\ drafts = pub.before

\* C7 witness: a body that satisfies the schema was refused by the kill switch.
C7_Witness == pubResp.status = 403 /\ pub.reqValid

\* C8: with publishing enabled and the credentials missing (or the placeholder
\* author), no request makes an outbound call, and a valid request of the
\* five-provider handler for a stored draft, with or without imageUrl, ends
\* with dryRun true, a post id beginning with "dry-run-", and the draft holding
\* the selected provider, the text, the image URL (null when none) and that
\* post id, with published false.
C8_DryRun ==
    (env.PUBLISH_ENABLED = "true" /\ CredentialsMissing) =>
        /\ net = <<>>
        /\ posts = {}
        /\ (/\ pub.pc = "done"
            /\ pub.valid
            /\ pub.route = "current"
            /\ FindDraft(pub.draftId) # 0) =>
               LET d == drafts[FindDraft(pub.draftId)]
               IN  /\ pubResp.status = 200
                   /\ pubResp.dryRun = TRUE
                   /\ HasPrefix(pubResp.linkedinPostId, DryRunPrefix)
                   /\ d.selectedModel = pub.selectedModel
                   /\ d.finalText = pub.text
                   /\ d.imageUrl = (IF pub.imageUrl = NoImage THEN Null
                                    ELSE pub.imageUrl)
                   /\ d.linkedinPostId = pubResp.linkedinPostId
                   /\ d.published = FALSE

\* C8 witness: a dry run with an image, the author being the placeholder.
C8_Witness ==
    /\ env.LINKEDIN_AUTHOR_URN = "urn:li:person:XXXX"
    /\ env.LINKEDIN_ACCESS_TOKEN = "tok"
    /\ pub.pc = "done"
    /\ pub.route = "current"
    /\ pub.imageUrl # NoImage
    /\ pubResp.status = 200
    /\ pubResp.dryRun = TRUE

\* C9: in the five-provider handler, live with an image, the outbound calls
\* are made in the order download, initializeUpload, put, post, each only after
\* the one before it succeeded; when an upload step fails it is the last call,
\* no post is submitted, no update is made, the Draft table is as before and
\* the request is answered with the upload error.
C9_UploadBeforePost ==
    (pub.route = "current" /\ pub.valid /\ pub.imageUrl # NoImage /\ ~pub.dryRun) =>
        /\ \A i \in 1..Len(net) :
              /\ net[i].call = <<"download", "initializeUpload", "put", "post">>[i]
              /\ i > 1 => net[i - 1].ok
        /\ pub.pc \in {"update"} => "post" \in NetCalls
        /\ UploadStepFailed =>
              /\ pub.pc = "done"
              /\ "post" \notin NetCalls
              /\ pub.updates = 0
              /\ drafts = pub.before
              /\ \A q \in posts : q.by # pub.count
              /\ pubResp = [status |-> 500, error |->
                    "Failed to upload image to LinkedIn. Post not published."]

\* C9 witness: the PUT of the bytes failed after the first two steps succeeded.
C9_Witness ==
    /\ Len(net) = 3
    /\ net[3] = [call |-> "put", ok |-> FALSE]
    /\ pub.pc = "done"

\* C10 as stated: every request that got past the kill switch and validation
\* concludes with exactly one draft update.  (A request whose upload or post
\* submission fails concludes with none.)
C10_AlwaysOneUpdate ==
    (pub.pc = "done" /\ pub.valid) => pub.updates = 1

\* C10 as amended: a request that got past the kill switch and validation makes
\* exactly one draft update unless its image upload or post submission fails,
\* and then none; live, the update follows the successful post submission; the
\* update of a stored draft writes selected provider, final text, post id and
\* published, which is true exactly when the run was live, and the image URL in
\* the five-provider handler (route.ts leaves the stored image URL alone); the
\* update of an unknown draft writes nothing and the request fails.
C10_OneUpdateUnlessFailed ==
    /\ pub.updates <= 1
    /\ pub.updates = 1 => pub.valid /\ pub.pc = "done"
    /\ (pub.pc = "done" /\ pub.valid) =>
          (pub.updates = 1 <=> ~(UploadStepFailed \/ PostFailed))
    /\ pub.updates = 1 =>
          /\ CredentialsMissing => net = <<>>
          /\ ~CredentialsMissing =>
                net # <<>> /\ net[Len(net)] = [call |-> "post", ok |-> TRUE]
          /\ IF FindDraft(pub.draftId) = 0
             THEN drafts = pub.before /\ pubResp.status = 500
             ELSE LET i == FindDraft(pub.draftId)
                      d == drafts[i]
                  IN  /\ pubResp.status = 200
                      /\ pubResp.dryRun = CredentialsMissing
                      /\ d.selectedModel = pub.selectedModel
                      /\ d.finalText = pub.text
                      /\ d.linkedinPostId = pubResp.linkedinPostId
                      /\ d.published = ~CredentialsMissing
                      /\ d.imageUrl =
                            (IF pub.route = "legacy" THEN pub.before[i].imageUrl
                             ELSE IF pub.imageUrl = NoImage THEN Null
                             ELSE pub.imageUrl)
                      /\ \A j \in 1..Len(drafts) : j # i => drafts[j] = pub.before[j]

\* C10 witness: a live publish with an image has updated its draft.
C10_Witness ==
    /\ pub.pc = "done"
    /\ pub.updates = 1
    /\ pub.imageUrl # NoImage
    /\ Len(net) = 4
    /\ drafts[1].published

\* C11: a publish request answered with a failure, whatever the cause, has
\* created no post on the social network and has left the Draft table as it
\* was.  (An update that throws after a successful live submission, as for a
\* draftId naming no stored draft, reports a failure with the post created.)
C11_FailureLeavesNoPost ==
    (pub.pc = "done" /\ pubResp.status >= 400) =>
        /\ \A q \in posts : q.by # pub.count
        /\ drafts = pub.before

\* A step that leaves every draft already written by a publish as it is and
\* removes no draft.
C12_WrittenDraftKept ==
    /\ Len(drafts') >= Len(drafts)
    /\ \A i \in 1..Len(drafts) :
          drafts[i].selectedModel # Null => drafts'[i] = drafts[i]

\* C12: a draft is mutated once after its creation: a publish request naming a
\* draft that an earlier publish already wrote does not modify it again, and no
\* step deletes a draft.  (The update is unconditional and overwrites.)
C12_DraftMutatedOnce == [][C12_WrittenDraftKept]_vars

----------------------------------------------------------------------------
(* Properties of the dashboard (SpecDash) *)

\* C5: the selected model always names an output of the current generate
\* response that does not begin with "[", and every publish request the
\* dashboard has sent carries a text that is not empty and does not begin
\* with "[".
C5_NoErrorSlotSelectedOrSent ==
    /\ ui.selected # Null =>
          /\ ui.outputs # NoOutputs
          /\ ui.selected \in Providers
          /\ ~StartsWith(ui.outputs[ui.selected], "[")
    /\ \A i \in 1..Len(sent) :
          /\ Len(sent[i].text) >= 1
          /\ ~StartsWith(sent[i].text, "[")

\* C5 witness: in a second generation whose response holds a slot beginning
\* with "[" and an empty slot, the empty slot was selected and refused by
\* handlePublish, after a publish request had been sent for the first one.
C5_Witness ==
    /\ ui.gens = 2
    /\ ui.outputs # NoOutputs
    /\ StartsWith(ui.outputs["groq"], "[")
    /\ ui.selected = "openai"
    /\ ui.outputs["openai"] = <<>>
    /\ ui.status = "error"
    /\ ui.step = 3
    /\ Len(sent) = 1

----------------------------------------------------------------------------
(* Properties of the OAuth flow (SpecOAuth) *)

InvalidState  == Redirect(<<"canva_error", "invalid_state">>)
MissingParams == Redirect(<<"canva_error", "missing_params">>)
Connected     == Redirect(<<"canva_connected", "true">>)

\* The step is the handling of a new callback request, up to its first await.
CallbackArrives == cb'.count = cb.count + 1

\* The step is the callback's continuation after the token endpoint answered.
CallbackSettles == cb.pc = "exchange" /\ cb'.pc = "done"

\* C13 as stated: a callback whose state differs from the state cookie (or that
\* has no state cookie) is redirected with invalid_state, one lacking code or
\* state with missing_params, and neither sends a token exchange.  (A callback
\* with an error parameter is redirected with that error whatever its state,
\* and one lacking code is redirected with missing_params whatever its state.)
C13_MismatchOrMissingRedirect ==
    (cb.pc = "done" /\ cb.count > 0) =>
        /\ (~Falsy(cb.query.state) /\ cb.query.state # cb.savedState) =>
               cb.resp = InvalidState /\ cb.sent = NoExchange
        /\ (Falsy(cb.query.code) \/ Falsy(cb.query.state)) =>
               cb.resp = MissingParams /\ cb.sent = NoExchange

\* The answers of the parameter checks, in the order the handler makes them.
C13_ChecksInOrder ==
    (cb.pc = "done" /\ cb.count > 0) =>
        /\ ~Falsy(cb.query.error) =>
               /\ cb.resp = Redirect(<<"canva_error", cb.query.error>>)
               /\ cb.sent = NoExchange
        /\ (Falsy(cb.query.error)
              /\ (Falsy(cb.query.code) \/ Falsy(cb.query.state))) =>
               cb.resp = MissingParams /\ cb.sent = NoExchange
        /\ (/\ Falsy(cb.query.error)
            /\ ~Falsy(cb.query.code)
            /\ ~Falsy(cb.query.state)
            /\ cb.query.state # cb.savedState) =>
               cb.resp = InvalidState /\ cb.sent = NoExchange

\* A callback answered by the parameter checks leaves the token table alone.
C13_RejectionKeepsToken ==
    (CallbackArrives /\ cb'.pc = "done") => tokens' = tokens

\* C13 as amended: a callback with an error parameter is redirected with that
\* error; without one, a callback lacking code or state is redirected with
\* missing_params; with both, a callback whose state differs from the state
\* cookie, or that has no state cookie, is redirected with invalid_state; in
\* all three cases no token exchange is sent and the token table is unchanged.
C13_ParamChecks == []C13_ChecksInOrder /\ [][C13_RejectionKeepsToken]_vars

\* C13 witness: a callback without state cookie was refused with invalid_state
\* while a token row existed.
C13_Witness ==
    /\ cb.resp = InvalidState
    /\ cb.savedState = Missing
    /\ tokens # {}

\* The callback answers with redirects only, and with a canva_error redirect
\* when its exchange did not end in canva_connected.
C14_RedirectOnly ==
    /\ cb.resp.status \in {0, 307}
    /\ (cb.pc = "done" /\ cb.sent # NoExchange /\ cb.resp # Connected) =>
          /\ cb.resp.status = 307
          /\ cb.resp.location[1] = "canva_error"
          /\ cb.resp.location[2] \in {"token_exchange_failed", "server_error"}

\* A continuation that ends in a canva_error leaves the token table alone.
C14_FailureKeepsToken ==
    (CallbackSettles /\ cb'.resp # Connected) => tokens' = tokens

\* C14: when the token exchange of a callback fails (non-2xx answer, network
\* error, or a failure while storing the token) the callback answers with a
\* redirect carrying a canva_error code, never with a 500, and the token row
\* is as it was before.
C14_ExchangeFailureRedirects ==
    []C14_RedirectOnly /\ [][C14_FailureKeepsToken]_vars

\* C14 witness: the exchange failed while a token row stored earlier existed.
C14_Witness ==
    /\ cb.pc = "done"
    /\ cb.sent # NoExchange
    /\ cb.resp = Redirect(<<"canva_error", "server_error">>)
    /\ tokens # {}

\* At most one row, and its id is "singleton".
C15_OneRow ==
    /\ Cardinality(tokens) <= 1
    /\ \A r \in tokens : r.id = "singleton"

\* A callback that connects leaves one row holding the values of its exchange.
C15_Overwrites ==
    (CallbackSettles /\ cb'.resp = Connected) =>
        \E d \in TokenResponses :
            tokens' = {[id |-> "singleton",
                        accessToken |-> d.access_token,
                        refreshToken |-> IF d.refresh_token = Missing
                                         THEN Null ELSE d.refresh_token,
                        expiresAt |-> IF d.expires_in \in {{}, {0}} THEN {}
                                      ELSE { now + 1000 * e : e \in d.expires_in }]}

\* C15: the token table never holds more than one row (id "singleton"); an
\* authorization that succeeds while a row exists overwrites access token,
\* refresh token and expiry with the values of the new exchange, refresh token
\* and expiry becoming null when the answer omits them.
C15_SingletonUpsert == []C15_OneRow /\ [][C15_Overwrites]_vars

\* C15 witness: a second callback connected with an answer that omits refresh
\* token and expiry, and the only row holds null for both.
C15_Witness ==
    /\ cb.count = 2
    /\ cb.resp = Connected
    /\ \E r \in tokens : r.accessToken = "at2" /\ r.refreshToken = Null
                          /\ r.expiresAt = {}

\* C16: every token exchange carries a code verifier, the one generated by the
\* authorization start that issued the state the callback matched.  (A request
\* with the state cookie but without the verifier cookie is exchanged without
\* code_verifier.)
C16_ExchangeCarriesVerifier ==
    cb.sent # NoExchange =>
        /\ cb.sent.code_verifier # Missing
        /\ \E n \in 1..auth.count :
              /\ cb.query.state = OAuthState(n)
              /\ cb.sent.code_verifier = CodeVerifier(n)

\* A browser callback that connects clears both cookies, and a browser callback
\* repeating the query of the last one that connected, with no authorization
\* start in between, is refused.
C17_ClearsAndRefuses ==
    /\ (CallbackSettles /\ cb'.resp = Connected /\ cb.browser) => jar' = NoCookies
    /\ (/\ CallbackArrives
        /\ cb'.browser
        /\ lastConnected # NoQuery
        /\ cb'.query = lastConnected) =>
           /\ cb'.pc = "done"
           /\ cb'.resp = InvalidState
           /\ cb'.sent = NoExchange
           /\ tokens' = tokens

\* C17: a callback ending in canva_connected=true clears the verifier and the
\* state cookie, so the same browser replaying the same code and state without
\* a new authorization start is redirected with invalid_state, sends no
\* exchange and leaves the token row alone.
C17_ReplayRefused == [][C17_ClearsAndRefuses]_vars

\* C17 witness: the replay of the connecting callback was refused.
C17_Witness ==
    /\ cb.count = 2
    /\ cb.browser
    /\ lastConnected # NoQuery
    /\ cb.query = lastConnected
    /\ cb.resp = InvalidState
    /\ tokens # {}

\* The step is the handling of a new status check, up to its first await.
StatusArrives == st'.pc # "idle" /\ st.pc \in {"idle", "done"} /\ st' # st

\* The stored row has no expiry or one in the future.
TokenFresh ==
    /\ tokens # {}
    /\ \A r \in tokens : r.expiresAt = {} \/ \E e \in r.expiresAt : e > now

\* The stored row has an expiry in the past.
TokenStale == tokens # {} /\ \A r \in tokens : \E e \in r.expiresAt : e < now

\* A status check on a fresh token answers connected without a refresh.
C18_FreshCheck ==
    (StatusArrives /\ TokenFresh) =>
        /\ st'.pc = "done"
        /\ st'.resp = [status |-> 200, connected |-> TRUE]
        /\ ~st'.sent
        /\ tokens' = tokens

\* C18: with a stored token that has not expired (no expiry, or one in the
\* future) every status check, however many follow one another, answers
\* {connected: true}, sends no refresh request and leaves the row unchanged.
C18_StatusIdempotent == [][C18_FreshCheck]_vars

\* C18 witness: two checks in a row answered connected on a token with an
\* expiry in the future, without a refresh.
C18_Witness ==
    /\ st.answers = <<TRUE, TRUE>>
    /\ ~st.sent
    /\ \E r \in tokens : \E e \in r.expiresAt : e > now

\* The answers of a status check on no row and on an expired row.
C19_ExpiredCheck ==
    /\ (StatusArrives /\ tokens = {}) =>
          /\ st'.pc = "done"
          /\ st'.resp = [status |-> 200, connected |-> FALSE]
          /\ tokens' = tokens
    /\ (StatusArrives /\ TokenStale) =>
          /\ tokens' = tokens
          /\ IF \A r \in tokens : r.refreshToken = Null
             THEN /\ st'.pc = "done"
                  /\ ~st'.sent
                  /\ st'.resp = [status |-> 200, connected |-> FALSE,
                                 expired |-> TRUE]
             ELSE st'.pc = "refresh" /\ st'.sent
    /\ (st.pc = "refresh" /\ st'.pc = "done") =>
          IF st'.refresh = "ok"
          THEN /\ st'.resp = [status |-> 200, connected |-> TRUE]
               /\ \E d \in TokenResponses : \A r \in tokens' :
                     /\ r.accessToken = d.access_token
                     /\ r.expiresAt = (IF d.expires_in \in {{}, {0}} THEN {}
                                       ELSE { now + 1000 * e : e \in d.expires_in })
               /\ tokens' # {}
          ELSE /\ st'.resp = [status |-> 200, connected |-> FALSE,
                              expired |-> TRUE]
               /\ tokens' = tokens

\* C19: a status check on an expired token with a stored refresh token sends
\* the refresh; when it succeeds the row gets the new access token and expiry
\* and the check answers connected: true; with no refresh token, or when the
\* refresh fails, the check answers connected: false, expired: true and the
\* row is unchanged; with no row the check answers connected: false.
C19_ExpiredRefreshes == [][C19_ExpiredCheck]_vars

\* C19 witness: an expired token was refreshed and the check answered connected.
C19_Witness ==
    /\ st.pc = "done"
    /\ st.refresh = "ok"
    /\ st.resp.connected

----------------------------------------------------------------------------
(* Properties of the Canva data endpoints (SpecData) *)

AuthorizationErrors == {"Canva not connected", "Canva token expired. Please reconnect."}

\* C20: a designs or export request made with no token row, or with an expired
\* token that the API refuses with 401, is answered with the not-connected or
\* the expired error, and with no row nothing is sent to the API.  (The export
\* answers an expired token with "Failed to start Canva export".)
C20_AuthorizationFailureSurfaced ==
    /\ (dsg.pc = "done" /\ (dsg.noToken \/ (dsg.expired /\ dsg.upstream = "401"))) =>
          dsg.resp.status = 401 /\ dsg.resp.error \in AuthorizationErrors
    /\ (exp.pc = "done" /\ (exp.noToken \/ (exp.expired /\ exp.upstream = "401"))) =>
          exp.resp.status = 401 /\ exp.resp.error \in AuthorizationErrors
    /\ dsg.noToken => dsg.calls = 0
    /\ exp.noToken => exp.calls = 0

----------------------------------------------------------------------------
(* Properties of the export (SpecExport) *)

\* The submission of the job was answered with a job id, so polling started.
Polling == exp.jobId

Timeout == ErrResp(504, "Export timed out after 30 seconds")
JobFailed == ErrResp(500, "Canva export job failed")

\* The asset URL of a poll that reported success with a URL.
AssetUrlOf(ended) ==
    IF ended = "success-url" THEN "https://export/result.png"
    ELSE "https://export/job.png"

\* C21: an export whose first 14 polls report in_progress and whose 15th
\* reports success with an asset URL returns that URL, and one whose 15 polls
\* all report in_progress returns the 504 timeout after exactly 15 polls.
C21_FifteenthPoll ==
    (exp.pc = "done" /\ Polling /\ exp.steady) =>
        /\ (exp.calls = 16 /\ exp.ended \in {"success-url", "success-job-url"}) =>
               exp.resp = [status |-> 200, success |-> TRUE,
                           imageUrl |-> AssetUrlOf(exp.ended)]
        /\ exp.ended = "in_progress" => exp.resp = Timeout /\ exp.calls = 16
        /\ exp.resp = Timeout => exp.calls = 16

\* C21 witness: success on the 15th poll after 14 polls in progress.
C21_Witness ==
    /\ exp.pc = "done"
    /\ exp.steady
    /\ exp.calls = 16
    /\ exp.ended = "success-url"
    /\ exp.resp.status = 200

\* C22: the first poll that reports success ends the polling, and the export
\* returns the asset URL, from the result list when there and else from the
\* top-level list.  (A success that carries no URL in either list is passed
\* over and the polling goes on.)
C22_FirstSuccessReturnsUrl ==
    exp.succeeded =>
        /\ exp.pc = "done"
        /\ exp.resp.status = 200
        /\ exp.resp.imageUrl = AssetUrlOf(exp.ended)

\* C23: the first poll that reports failed ends the polling with the 500
\* job-failure error, and the 504 timeout is returned only after 15 polls none
\* of which saw a terminal status.  (15 polls that see success without a URL
\* also end in the timeout.)
C23_FailedVersusTimeout ==
    /\ exp.ended = "failed" => exp.pc = "done" /\ exp.resp = JobFailed
    /\ exp.resp.status = 504 =>
          /\ exp.resp = Timeout
          /\ exp.calls = 16
          /\ ~exp.succeeded

\* A poll answered non-2xx is followed by the next pass of the loop, or by
\* the timeout when it was the 15th.
C24_SkippedPollGoesOn ==
    (exp.pc = "poll" /\ exp'.skipped = exp.skipped + 1) =>
        IF exp.attempt < 14
        THEN exp'.pc = "poll" /\ exp'.attempt = exp.attempt + 1
        ELSE exp'.pc = "done" /\ exp'.resp = Timeout

\* A poll that reports success with a URL, or failed, decides the answer
\* whatever polls were skipped before it.
C24_LaterPollDecides ==
    (exp.pc = "done" /\ Polling) =>
        /\ exp.ended \in {"success-url", "success-job-url"} =>
               exp.resp = [status |-> 200, success |-> TRUE,
                           imageUrl |-> AssetUrlOf(exp.ended)]
        /\ exp.ended = "failed" => exp.resp = JobFailed

\* C24: a status poll answered non-2xx does not abort the export: the next
\* attempt follows, and a later poll that reports success or failed still
\* decides the outcome, wherever among the 15 attempts the non-2xx answers
\* fall.
C24_TransientPollSkipped ==
    []C24_LaterPollDecides /\ [][C24_SkippedPollGoesOn]_vars

\* C24 witness: 14 polls answered non-2xx and the 15th returned the URL.
C24_Witness ==
    /\ exp.pc = "done"
    /\ exp.skipped = 14
    /\ exp.ended = "success-url"
    /\ exp.resp.status = 200

\* C25: when the submission of the job fails (a non-2xx answer, or an answer
\* without job id) the export answers with an error at once and sends no
\* status poll.
C25_SubmissionFailureIsFinal ==
    (exp.upstream # "none" /\ ~exp.jobId) =>
        /\ exp.pc = "done"
        /\ exp.calls = 1
        /\ exp.attempt = 0
        /\ exp.resp.status >= 400

\* C25 witness: the submission was answered 200 without a job id.
C25_Witness ==
    /\ exp.upstream = "200"
    /\ ~exp.jobId
    /\ exp.resp = ErrResp(500, "No export job ID returned from Canva")

\* One submission and at most 15 polls, and one of the four kinds of answer.
C26_Bounded ==
    /\ exp.calls <= 16
    /\ exp.pc \in {"create", "poll"} => exp.calls >= 1
    /\ exp.pc = "create" => exp.calls = 1
    /\ exp.pc = "poll" => exp.attempt < 15 /\ exp.calls = 1 + exp.attempt
    /\ (exp.pc = "done" /\ exp.upstream # "none") =>
          \/ exp.resp.status = 200 /\ exp.resp.imageUrl = AssetUrlOf(exp.ended)
          \/ exp.resp = JobFailed
          \/ exp.resp = Timeout
          \/ exp.resp.status >= 400

\* C26: whatever the provider answers, an export that reaches the provider
\* sends one job submission and at most 15 status polls, polls answered
\* non-2xx included, and then ends with the asset URL, the job-failure error,
\* the timeout error or another error response.
C26_ExportTerminates ==
    []C26_Bounded /\ ((exp.pc \in {"create", "poll"}) ~> (exp.pc = "done"))

\* C26 witness: the export ended in the timeout after 15 polls of which some
\* were answered non-2xx.
C26_Witness ==
    /\ exp.pc = "done"
    /\ exp.resp = Timeout
    /\ exp.calls = 16
    /\ exp.skipped = 7

----------------------------------------------------------------------------
(* Properties of the rate limiter (SpecLimiter) *)

\* While every call for a key lies within 60 s of the first one, the n-th call
\* is allowed with remaining 10 - n for n up to 10 and denied with remaining 0
\* after that.
C27_WithinWindow ==
    (rl.key # Null /\ now - rl.first[rl.key] < 60000) =>
        IF rl.calls[rl.key] <= 10
        THEN rl.result = [allowed |-> TRUE, remaining |-> 10 - rl.calls[rl.key]]
        ELSE rl.result = [allowed |-> FALSE, remaining |-> 0]

\* A call for a key whose recorded hits are all 60 s old or older is allowed.
C27_AllowedAfterWindow ==
    \A k \in RateKeys :
        (/\ rl'.calls[k] = rl.calls[k] + 1
         /\ k \in DOMAIN hits
         /\ \A i \in 1..Len(hits[k]) : now - hits[k][i] >= 60000) =>
            rl'.result = [allowed |-> TRUE, remaining |-> 9]

\* C27: for a key with no recorded hits, 10 admits within one 60 s window are
\* allowed with remaining 9, 8, ..., 0, an 11th in the same window returns
\* {allowed: false, remaining: 0}, and once the window has passed since those
\* hits the next admit is allowed again.
C27_LimiterScenario == []C27_WithinWindow /\ [][C27_AllowedAfterWindow]_vars

\* C27 witness: ten admits at time 0, a denied eleventh, and an admit that is
\* allowed 60 s later.
C27_Witness ==
    /\ rl.calls["a"] = 12
    /\ now = 60000
    /\ Len(rl.recent["a"]) = 11
    /\ rl.recent["a"][10] = 0
    /\ rl.recent["a"][11] = 60000
    /\ rl.result = [allowed |-> TRUE, remaining |-> 9]

\* C28: for every key, of the calls made at non-decreasing times at most 10
\* are allowed within any 60 s (an allowed call and the tenth allowed call
\* after it are at least 60 s apart, wherever the interval starts), and no
\* key has more than 10 timestamps recorded.
C28_SlidingWindow ==
    \A k \in RateKeys :
        /\ k \in DOMAIN hits => Len(hits[k]) <= 10
        /\ Len(rl.recent[k]) = 11 => rl.recent[k][11] - rl.recent[k][1] >= 60000

\* C28 witness: ten admits at 30 s, and a call at 60 s, the start of the next
\* fixed minute, is denied.
C28_Witness ==
    /\ rl.calls["a"] = 11
    /\ now = 60000
    /\ hits["a"][1] = 30000
    /\ rl.key = "a"
    /\ rl.result = [allowed |-> FALSE, remaining |-> 0]

----------------------------------------------------------------------------
(* Properties of stripMarkdown (SpecStrip) *)

Count(t, c) == Cardinality({i \in 1..Len(t) : t[i] = c})

\* Text without stars, hashes and line breaks, not led by white space.
PlainChars == {"a", " ", Diamond}
IsPlain(t) ==
    /\ \A i \in 1..Len(t) : t[i] \in PlainChars
    /\ t # <<>> => t[1] # " "

Bulleted(t) == [i \in 1..Len(t) |-> IF t[i] = Diamond THEN Bullet ELSE t[i]]

Hashes(n) == [i \in 1..n |-> "#"]

StrippedText ==
    <<"b","o","l","d"," ","a","n","d"," ","i","t","a","l","i","c"," ","w","i",
      "t","h"," ",Bullet," ","i","t","e","m">>

\* C29: stripMarkdown("**bold** and *italic* with <diamond> item") is
\* "bold and italic with <bullet> item"; a pair of bold markers and a pair of
\* italic markers around plain text are removed and the text between them is
\* kept, the heading marker that leads a line of plain text is removed, and
\* every diamond of the argument is a bullet in the result, no other character
\* becoming one.
C29_StripMarkdown ==
    md.done =>
        LET t == md.text
            n == Len(md.text)
            Inner(m) == SubSeq(t, m + 1, n - m)
            Wrapped(m) ==
                /\ n > 2 * m
                /\ \A i \in 1..m : t[i] = "*" /\ t[n + 1 - i] = "*"
                /\ IsPlain(Inner(m))
            Headed(h) ==
                /\ n > h + 1
                /\ SubSeq(t, 1, h) = Hashes(h)
                /\ t[h + 1] = " "
                /\ IsPlain(SubSeq(t, h + 2, n))
        IN  /\ t = MarkedText => md.out = StrippedText
            /\ Wrapped(2) => md.out = Bulleted(Inner(2))
            /\ Wrapped(1) => md.out = Bulleted(Inner(1))
            /\ \A h \in 1..6 : Headed(h) => md.out = Bulleted(SubSeq(t, h + 2, n))
            /\ Count(md.out, Diamond) = 0
            /\ Count(md.out, Bullet) = Count(t, Diamond) + Count(t, Bullet)

C29_Witness ==
    /\ md.done
    /\ md.text = MarkedText
    /\ md.out = StrippedText

----------------------------------------------------------------------------
(* Properties of the generate flow under every settlement order (SpecOrder) *)

\* The text a provider key gets for an outcome of its own call.
OwnText(p, o) ==
    IF o = Fulfilled(<<"h","i">>) THEN <<"h","i">>
    ELSE <<"[">> \o ProviderLabel(p)
           \o <<" ","e","r","r","o","r",":"," ","t","]">>

\* C30 (state part): whatever the order in which the five calls settled, in
\* the response and in the draft each provider key holds the text of the
\* outcome of that provider's own call.
C30_KeyedByProvider ==
    /\ gen.creates = 1 =>
          /\ Len(arrivals) = 5
          /\ {arrivals[i] : i \in 1..5} = Providers
          /\ \A p \in Providers :
                DraftSlot(drafts[gen.draftId], p) = OwnText(p, calls[p])
    /\ genResp.status = 200 =>
          \A p \in Providers : genResp[p] = OwnText(p, calls[p])

\* C30 (step part): while a request is being handled, the outcome of a settled
\* call is not altered by a sibling that settles later.
C30_SettledKept ==
    \A p \in Providers :
        (calls[p].status \in {"fulfilled", "rejected"} /\ gen.pc # "idle")
            => calls'[p] = calls[p]

\* C30: for any order in which the five provider calls of one generate request
\* settle, the returned mapping from provider key to output is the same: each
\* key's value is determined only by the outcome of that provider's own call,
\* never by arrival order or by another provider's outcome.
C30_OrderIrrelevant == []C30_KeyedByProvider /\ [][C30_SettledKept]_vars

\* C30 witness: the calls settled in the reverse of the order in which they
\* were started, with failures and successes mixed, and the request was
\* answered.
C30_Witness ==
    /\ genResp.status = 200
    /\ arrivals = <<"groq", "geminiDirect", "claude", "gemini", "openai">>
    /\ calls["groq"].status = "rejected"
    /\ calls["openai"].status = "fulfilled"
    /\ calls["claude"].status = "rejected"

----------------------------------------------------------------------------
(* Properties of the slots of a generate result (SpecSlots) *)

\* The reason a failed call's slot shows.
ShownReason(r) ==
    CASE r.vendorMsg # Absent -> r.vendorMsg
      [] r.vendorMsg = Absent /\ r.message # Absent -> r.message
      [] OTHER -> <<"u","n","k","n","o","w","n">>

\* C31: each provider slot of a generate result is the parsed text when that
\* provider's call succeeded and otherwise a placeholder of the form
\* "[<ProviderLabel> error: <reason>]" that begins with "["; the reason is the
\* vendor's error message if present, else the transport error message, else
\* "unknown".
C31_SlotTextOrPlaceholder ==
    genResp.status = 200 =>
        \A p \in Providers :
            /\ (calls[p].status = "fulfilled" /\ calls[p].content # Absent) =>
                   genResp[p] = calls[p].content
            /\ calls[p].status = "rejected" =>
                   /\ genResp[p] = <<"[">> \o ProviderLabel(p)
                                     \o <<" ","e","r","r","o","r",":"," ">>
                                     \o ShownReason(calls[p]) \o <<"]">>
                   /\ genResp[p][1] = "["

\* C31 witness: one response shows a parsed text and the three kinds of reason.
C31_Witness ==
    /\ genResp.status = 200
    /\ calls["openai"] = Fulfilled(<<"h","i">>)
    /\ calls["gemini"] = Rejected(<<"v">>, <<"t">>)
    /\ calls["claude"] = Rejected(Absent, <<"t">>)
    /\ calls["groq"] = Rejected(Absent, Absent)
    /\ genResp["gemini"] = <<"[","G","e","m","m","a"," ","e","r","r","o","r",":"," ","v","]">>
    /\ genResp["claude"] = <<"[","G","L","M"," ","e","r","r","o","r",":"," ","t","]">>
    /\ genResp["groq"] =
          <<"[","G","r","o","q"," ","e","r","r","o","r",":"," ","u","n","k","n","o","w","n","]">>

IsErrorPlaceholder(t) ==
    \E q \in Providers :
        HasPrefix(t, <<"[">> \o ProviderLabel(q) \o <<" ","e","r","r","o","r",":">>)

\* C32: a provider call that succeeds at the transport level but whose response
\* lacks the first candidate's text yields the fixed placeholder
\* "[No response]" for that slot, which is no error placeholder, and the
\* generate request is answered with 200 all the same.
C32_NoResponsePlaceholder ==
    /\ (gen.passed /\ genResp.status # 0) => genResp.status = 200
    /\ genResp.status = 200 =>
          \A p \in Providers :
              calls[p] = Fulfilled(Absent) =>
                  /\ genResp[p] = <<"[","N","o"," ","r","e","s","p","o","n","s","e","]">>
                  /\ ~IsErrorPlaceholder(genResp[p])
                  /\ DraftSlot(drafts[FindDraft(genResp.id)], p) = genResp[p]

\* C32 witness: a response with a slot of a call that answered without a text
\* next to the slot of a call that failed.
C32_Witness ==
    /\ genResp.status = 200
    /\ calls["geminiDirect"] = Fulfilled(Absent)
    /\ calls["openai"].status = "rejected"
    /\ IsErrorPlaceholder(genResp["openai"])
    /\ ~IsErrorPlaceholder(genResp["geminiDirect"])

----------------------------------------------------------------------------
(* Termination of the generate flow (SpecGenLive) *)

\* C33: if each of the five provider calls eventually settles (each call has
\* its own timeout), every generate request that passed the rate limiter and
\* validation eventually returns a response, whichever providers fail.
C33_PassedRequestAnswered ==
    (gen.passed /\ gen.pc # "idle") ~> (gen.pc = "idle" /\ genResp.status = 200)

\* C33 witness: a request was answered after two of its calls failed and one
\* answered without a text.
C33_Witness ==
    /\ gen.passed
    /\ gen.pc = "idle"
    /\ genResp.status = 200
    /\ calls["gemini"].status = "rejected"
    /\ calls["groq"].status = "rejected"
    /\ calls["claude"] = Fulfilled(Absent)

----------------------------------------------------------------------------
(* Properties of the Draft Store across deployments (SpecStore) *)

LivePostIds == { <<"u","r","n",":","1">>, <<"i","d",":","1">>,
                 <<"u","n","k","n","o","w","n">> }

\* C34: in every reachable state of the Draft Store, a draft with published =
\* true has a linkedinPostId taken from a live post submission that was
\* answered for that draft's text, never a "dry-run-" id, and a draft that was
\* only ever published in dry-run mode (no submission was ever made, or its
\* stored id is a "dry-run-" id) has published = false.
C34_PublishedMeansLivePost ==
    \A i \in 1..Len(drafts) :
        /\ drafts[i].published =>
              /\ drafts[i].linkedinPostId \in LivePostIds
              /\ ~HasPrefix(drafts[i].linkedinPostId, <<"d","r","y","-","r","u","n","-">>)
              /\ \E q \in posts :
                    q.commentary \in {drafts[i].finalText, stripMarkdown(drafts[i].finalText)}
        /\ posts = {} => ~drafts[i].published
        /\ (/\ drafts[i].linkedinPostId # NullText
            /\ HasPrefix(drafts[i].linkedinPostId, <<"d","r","y","-","r","u","n","-">>))
              => ~drafts[i].published

\* C34 witness: a draft saved by a dry run, then published live once the
\* credentials were added: it is published under the id the network gave.
C34_Witness ==
    /\ pub.count = 2
    /\ pub.pc = "done"
    /\ isLinkedInConfigured
    /\ Len(pub.before) = 1
    /\ ~pub.before[1].published
    /\ pub.before[1].linkedinPostId # NullText
    /\ HasPrefix(pub.before[1].linkedinPostId, <<"d","r","y","-","r","u","n","-">>)
    /\ drafts[1].published
    /\ drafts[1].linkedinPostId = <<"i","d",":","1">>

----------------------------------------------------------------------------
(* Properties of the dashboard's image choice (SpecDash) *)

\* A publish request is handed to fetch in this step.
PublishSent == Len(sent') = Len(sent) + 1

\* C35: once the operator has chosen "Skip - text only" or "New post" or has
\* started a new generation, the next publish request carries no imageUrl
\* unless a design was selected after that choice, whatever becomes of an
\* export still in flight at the choice.  selectedDesign is null exactly from
\* such a choice (or a failed export) to the next selection of a design.
\* (An export that settles after the choice stores its image all the same.)
C35_SkipDropsImage ==
    [][(PublishSent /\ ui.selectedDesign = Null)
          => sent'[Len(sent')].imageUrl = NoImage]_vars

----------------------------------------------------------------------------
(* Properties of concurrent writers of the token row (SpecOAuth) *)

\* The refresh of the status check ends in this step with a 2xx answer and a
\* completed update.
RefreshStores == st.pc = "refresh" /\ st'.pc = "done" /\ st'.refresh = "ok"

\* C36 as stated: a refresh that read the token row before a new
\* authorization was stored never overwrites the row that authorization wrote.
C36_RefreshSparesNewAuthorization ==
    [][(RefreshStores /\ st.overtaken) => tokens' = tokens]_vars

\* C36: the token row is written under last-writer-wins.  A refresh that ends
\* with a completed update leaves in the row the access token, refresh token
\* and expiry of its own answer (the refresh token it had read when the answer
\* carries none), also when a callback stored a new authorization after the
\* refresh had read the row; a callback that connects leaves the row of its
\* own exchange.
C36_LastWriterWins ==
    [][/\ RefreshStores =>
            \E d \in TokenResponses :
                tokens' = {[id |-> "singleton",
                            accessToken |-> d.access_token,
                            refreshToken |-> IF d.refresh_token # Missing
                                             THEN d.refresh_token
                                             ELSE st.refreshToken,
                            expiresAt |-> ExpiresAt(d.expires_in, now)]}
       /\ (cb.pc = "exchange" /\ cb'.pc = "done"
             /\ cb'.resp = Redirect(<<"canva_connected", "true">>)) =>
            \E d \in TokenResponses :
                tokens' = {[id |-> "singleton",
                            accessToken |-> d.access_token,
                            refreshToken |-> IF d.refresh_token # Missing
                                             THEN d.refresh_token ELSE Null,
                            expiresAt |-> ExpiresAt(d.expires_in, now)]}
      ]_vars

\* C36 witness: a callback stored a new authorization while a refresh was
\* awaited, both have finished, and the row holds the refresh's tokens with
\* the refresh token read before the authorization.
C36_Witness ==
    /\ st.pc = "done"
    /\ st.overtaken
    /\ st.refresh = "ok"
    /\ cb.pc = "done"
    /\ cb.resp = Redirect(<<"canva_connected", "true">>)
    /\ tokens = {[id |-> "singleton", accessToken |-> "at2",
                  refreshToken |-> st.refreshToken, expiresAt |-> {}]}

----------------------------------------------------------------------------
(* Properties of the refresh over successive expiries (SpecRefresh) *)

----------------------------------------------------------------------------
(* Frame of one call of the rate limiter (SpecLimiter) *)

\* The timestamps recorded for a key, none when the key is not in the map.
HitsOf(h, k) == IF k \in DOMAIN h THEN h[k] ELSE <<>>

\* C38: a denied call records no new timestamp for its key, so denied calls
\* never postpone the time at which the key is admitted again (the recorded
\* timestamps are the same after the call as before); and a call for one key
\* never changes the recorded timestamps of another key, nor whether that key
\* is in the map.
C38_DeniedAndOtherKeysUntouched ==
    [][\A k \in RateKeys :
          rl'.calls[k] = rl.calls[k] + 1 =>
              /\ ~rl'.result.allowed =>
                     /\ hits'[k] = hits[k]
                     /\ Len(hits'[k]) = 10
              /\ rl'.result.allowed =>
                     hits'[k][Len(hits'[k])] = now
              /\ \A j \in RateKeys \ {k} :
                     /\ (j \in DOMAIN hits') = (j \in DOMAIN hits)
                     /\ HitsOf(hits', j) = HitsOf(hits, j)
      ]_vars

\* C38 witness: key "a" was denied once and then admitted again as soon as
\* its first ten timestamps had left the window, while key "b" was admitted
\* in between.
C38_Witness ==
    /\ rl.calls["a"] = 12
    /\ Len(rl.recent["a"]) = 11
    /\ rl.recent["a"][1] = 0
    /\ rl.recent["a"][10] = 0
    /\ rl.recent["a"][11] = 60000
    /\ rl.calls["b"] = 1
    /\ hits["b"] = <<30000>>
    /\ hits["a"] = <<60000>>

----------------------------------------------------------------------------
(* Properties of the middleware (SpecGate) *)

\* The protected paths: the dashboard and the generate, publish, drafts and
\* canva routes.
ProtectedPath(segs) ==
    \/ segs # <<>> /\ Head(segs) = "dashboard"
    \/ Len(segs) >= 2 /\ Head(segs) = "api"
          /\ segs[2] \in {"generate", "publish", "drafts", "canva"}

\* C39: a request to a protected path whose auth cookie is absent or not
\* "authenticated" never reaches its handler: API paths get a 401 JSON answer
\* and page paths are redirected to /login; the login page and the auth API
\* are always let through.
C39_GateKeepsProtectedPaths ==
    /\ (ProtectedPath(gate.path) /\ gate.sentCookie # "authenticated") =>
          /\ ~gate.through
          /\ gate.resp = IF Head(gate.path) = "api"
                         THEN [status |-> 401, error |-> "Unauthorized"]
                         ELSE [status |-> 307, location |-> <<"login">>]
    /\ gate.path \in {<<"login">>, <<"api", "auth", "login">>} => gate.through

\* C39 witness: a canva route was asked for with a cookie of another value and
\* answered 401 without reaching its handler.
C39_Witness ==
    /\ gate.path = <<"api", "canva", "export">>
    /\ gate.sentCookie = "yes"
    /\ ~gate.through
    /\ gate.resp = [status |-> 401, error |-> "Unauthorized"]

====
